---- MODULE Spec2Model ----
(***************************************************************************)
(* Multi-knowledge-base RAG engine (app/multi_kb_rag.py): the vector store *)
(* with its KB collections and the master router index, the in-memory chat *)
(* histories, and one action per caller-facing operation.                  *)
(*                                                                         *)
(* Strings that the code inspects are sequences: a KB name is a sequence   *)
(* of one-character strings, a description is a sequence of the pieces the *)
(* code concatenates.  Similarity scores are in hundredths (0.4 is 40).    *)
(* Timestamps (created_at, updated_at, uploaded_at) are left out.          *)
(* Every call to the vector store, the embedding model or the LLM may      *)
(* raise; an operation runs with at most one failing call site (fault).    *)
(***************************************************************************)
EXTENDS Integers, Sequences, FiniteSets, TLC

VARIABLES qdrant, chat_histories, last, calls, session_histories, lists

vars == <<qdrant, chat_histories, last, calls, session_histories, lists>>

\* The engine's state is qdrant and chat_histories; last is the last operation
\* with its arguments and result.  calls holds the chat calls in flight, one
\* per caller.  session_histories is the chat_histories dict of the
\* single-collection servers (app/main.py, mcp_server.py): session id to the
\* list object stored under it; lists holds the messages of every list object.
server == <<calls, session_histories, lists>>

(***************************************************************************)
(* Bounds and input sets                                                   *)
(***************************************************************************)
MaxTurns == 2
MaxChunks == 1
MaxSources == 3

\* two spellings of one knowledge base, and another knowledge base
AliasNames == { <<"A", " ", "b">>, <<"a", "-", "b">> }
OtherNames == { <<"c">> }
\* the callers whose chat calls can overlap; a caller without a call
Callers == {"p1", "p2"}
Idle == [pc |-> "idle"]
KBNames == AliasNames \cup OtherNames
InfoNames == KBNames \cup { <<"a", "_", "b">>, <<"A", "-", "B">>, <<"C">>, <<" ">>, <<"-">>, <<>> }
Sessions == {"s1", "s2"}
Queries == {"q1", "q2"}
Answers == {"ans"}
Filenames == {"f.txt"}

None == [None |-> TRUE]
EmptyDict == <<>>

(***************************************************************************)
(* Name resolution                                                         *)
(***************************************************************************)
\* str.lower() on the characters of the model's alphabet
LowerChar(ch) ==
    CASE ch = "A" -> "a"
      [] ch = "B" -> "b"
      [] ch = "C" -> "c"
      [] ch = "I" -> "i"
      [] ch = "M" -> "m"
      [] ch = "R" -> "r"
      [] OTHER -> ch

StrLower(s) == [i \in 1..Len(s) |-> LowerChar(s[i])]

\* str.replace(old, new) for one-character old and new
StrReplace(s, old, new) == [i \in 1..Len(s) |-> IF s[i] = old THEN new ELSE s[i]]

\* A mutation of _normalize_collection_name: a space becomes a hyphen and a
\* hyphen an underscore
NormalizeShifting(name) ==
    [i \in 1..Len(name) |->
        IF name[i] = " " THEN "-"
        ELSE IF name[i] = "-" THEN "_"
        ELSE LowerChar(name[i])]

NormalizeKeepHyphen(name) == StrReplace(StrLower(name), " ", "_")

_normalize_collection_name(name) ==
    StrReplace(StrReplace(StrLower(name), " ", "_"), "-", "_")

\* A mutation of _get_collection_name: the prefix is left out
GetCollectionNameUnprefixed(kb_name) ==
    _normalize_collection_name(kb_name)

_get_collection_name(kb_name) ==
    <<"k", "b", "_">> \o _normalize_collection_name(kb_name)

ROUTER_COLLECTION_NAME ==
    <<"m", "a", "s", "t", "e", "r", "_", "r", "o", "u", "t", "e", "r", "_", "i", "n", "d", "e", "x">>

\* ROUTER_SIMILARITY_THRESHOLD = 0.4, in hundredths
ROUTER_SIMILARITY_THRESHOLD == 40

(***************************************************************************)
(* Vector store: qdrant maps each existing collection name to its points,  *)
(* a function from point id to payload.                                    *)
(***************************************************************************)
\* get_collection answers for a collection that exists; for a missing one it
\* raises, which is caught and read as False
collection_exists(q, collection_name) == collection_name \in DOMAIN q

\* qdrant_client.upsert of one point: a point with the same id is replaced
Upsert(q, collection_name, id, payload) ==
    [q EXCEPT ![collection_name] =
        [i \in DOMAIN @ \cup {id} |-> IF i = id THEN payload ELSE @[i]]]

\* str(uuid.uuid4()): an id no point of the collection has
NewUuid(points) == <<"uuid", Cardinality(DOMAIN points) + 1>>

IsSentinel(payload) ==
    "_type" \in DOMAIN payload /\ payload["_type"] = "collection_metadata"

SentinelIds(q, c) == {i \in DOMAIN q[c] : IsSentinel(q[c][i])}
ChunkIds(q, c) == {i \in DOMAIN q[c] : ~IsSentinel(q[c][i])}

KBCollections(q) == DOMAIN q \ {ROUTER_COLLECTION_NAME}

\* the router points whose payload names collection c
RouterEntries(q, c) ==
    IF ROUTER_COLLECTION_NAME \in DOMAIN q
    THEN {i \in DOMAIN q[ROUTER_COLLECTION_NAME] :
            q[ROUTER_COLLECTION_NAME][i].collection_name = c}
    ELSE {}

(***************************************************************************)
(* Descriptions                                                            *)
(***************************************************************************)
EmptyDescription == <<>>
PlaceholderDescription == <<"Auto-created collection">>
ManualDescription == <<"Thai firearms law">>
AutoDescription(filename) == <<"Auto-created collection for ", filename>>

\* dict.get(key, default)
Get(dict, key, default) == IF key \in DOMAIN dict THEN dict[key] ELSE default

\* {**a, **b}: the keys of b override those of a
Merge(a, b) == [k \in DOMAIN a \cup DOMAIN b |-> IF k \in DOMAIN b THEN b[k] ELSE a[k]]

_generate_smart_description(metadata, filename) ==
    LET doc_type == Get(metadata, "doc_type", "Unknown")
        title == Get(metadata, "title", filename)
        category == Get(metadata, "category", "General")
        status == Get(metadata, "status", "")
        description == <<"[", doc_type, "] ", title, " - Category: ", category>>
    IN  IF status # "" /\ status # "Unknown"
        THEN description \o <<" (", status, ")">>
        ELSE description

(***************************************************************************)
(* Router index                                                            *)
(***************************************************************************)
\* A mutation of _update_router_index: the entry of the KB is dropped before
\* the new one is embedded and written, so a failure leaves the KB without one
UpdateRouterIndexDroppingFirst(q, kb_name, description, fault) ==
    IF description = EmptyDescription \/ description = PlaceholderDescription
    THEN q
    ELSE IF ~collection_exists(q, ROUTER_COLLECTION_NAME)
    THEN q
    ELSE IF fault \in {"embed_query", "upsert_router"}
    THEN [q EXCEPT ![ROUTER_COLLECTION_NAME] =
            [i \in DOMAIN @ \ {_get_collection_name(kb_name)} |-> @[i]]]
    ELSE LET collection_name == _get_collection_name(kb_name)
         IN  Upsert(q, ROUTER_COLLECTION_NAME, collection_name,
                    [kb_name |-> kb_name,
                     collection_name |-> collection_name,
                     description |-> description])

\* A mutation of _update_router_index: the point id is the raw KB name
UpdateRouterIndexByRawName(q, kb_name, description, fault) ==
    IF description = EmptyDescription \/ description = PlaceholderDescription
    THEN q
    ELSE IF fault \in {"embed_query", "upsert_router"} \/ ~collection_exists(q, ROUTER_COLLECTION_NAME)
    THEN q
    ELSE Upsert(q, ROUTER_COLLECTION_NAME, kb_name,
                [kb_name |-> kb_name,
                 collection_name |-> _get_collection_name(kb_name),
                 description |-> description])

\* A mutation of _update_router_index: an entry that exists is kept as it is
UpdateRouterIndexKeepFirst(q, kb_name, description, fault) ==
    IF description = EmptyDescription \/ description = PlaceholderDescription
    THEN q
    ELSE IF fault \in {"embed_query", "upsert_router"} \/ ~collection_exists(q, ROUTER_COLLECTION_NAME)
    THEN q
    ELSE IF _get_collection_name(kb_name) \in DOMAIN q[ROUTER_COLLECTION_NAME]
    THEN q
    ELSE Upsert(q, ROUTER_COLLECTION_NAME, _get_collection_name(kb_name),
                [kb_name |-> kb_name,
                 collection_name |-> _get_collection_name(kb_name),
                 description |-> description])

\* A mutation of _update_router_index: every write gets a fresh point id
UpdateRouterIndexFreshId(q, kb_name, description, fault) ==
    IF description = EmptyDescription \/ description = PlaceholderDescription
    THEN q
    ELSE IF fault \in {"embed_query", "upsert_router"} \/ ~collection_exists(q, ROUTER_COLLECTION_NAME)
    THEN q
    ELSE Upsert(q, ROUTER_COLLECTION_NAME, NewUuid(q[ROUTER_COLLECTION_NAME]),
                [kb_name |-> kb_name,
                 collection_name |-> _get_collection_name(kb_name),
                 description |-> description])

\* The new store; an exception of the embedding or of the upsert is caught
\* and logged inside, so the caller never sees it.
_update_router_index(q, kb_name, description, fault) ==
    IF description = EmptyDescription \/ description = PlaceholderDescription
    THEN q
    ELSE IF fault \in {"embed_query", "upsert_router"} \/ ~collection_exists(q, ROUTER_COLLECTION_NAME)
    THEN q
    ELSE LET collection_name == _get_collection_name(kb_name)
         IN  Upsert(q, ROUTER_COLLECTION_NAME, collection_name,
                    [kb_name |-> kb_name,
                     collection_name |-> collection_name,
                     description |-> description])

\* the call of _update_router_index that raises under this fault, if it is reached
RouterFault(description, fault) ==
    IF /\ description # EmptyDescription
       /\ description # PlaceholderDescription
       /\ fault \in {"embed_query", "upsert_router"}
    THEN fault
    ELSE "none"

\* An auto-creating upload writes the RouterEntry twice: inside
\* create_collection and again after add_documents.  The two faults below hit
\* one of the two writes only; every other fault hits each call site it names.
AtCreation(fault) ==
    CASE fault = "upsert_router_at_creation" -> "upsert_router"
      [] fault = "upsert_router_after_store" -> "none"
      [] OTHER -> fault

AfterStore(fault) ==
    CASE fault = "upsert_router_after_store" -> "upsert_router"
      [] fault = "upsert_router_at_creation" -> "none"
      [] OTHER -> fault

\* the fault a successful upload_document ran into, if its call site was reached
UploadRaised(made, description, fault) ==
    IF fault = "upsert_router_at_creation"
    THEN IF made.raised = "upsert_router" THEN fault ELSE "none"
    ELSE IF fault = "upsert_router_after_store"
    THEN IF RouterFault(description, "upsert_router") = "upsert_router"
         THEN fault
         ELSE "none"
    ELSE RouterFault(description, fault)

\* A mutation of create_collection: on a collection that exists it still
\* registers the description it was given
CreateOrRegister(q, kb_name, description, fault) ==
    LET collection_name == _get_collection_name(kb_name)
        created == [c \in DOMAIN q \cup {collection_name} |->
                        IF c = collection_name THEN <<>> ELSE q[c]]
        metadata_point == [_type |-> "collection_metadata",
                           kb_name |-> kb_name,
                           description |-> description,
                           document_count |-> 0]
        stored == Upsert(created, collection_name, NewUuid(<<>>), metadata_point)
    IN  IF collection_exists(q, collection_name)
        THEN [q |-> _update_router_index(q, kb_name, description, fault),
              raised |-> RouterFault(description, fault),
              result |-> [success |-> FALSE,
                          message |-> "already exists",
                          collection_name |-> collection_name]]
        ELSE IF fault = "create_collection"
        THEN [q |-> q, raised |-> fault,
              result |-> [success |-> FALSE, message |-> "error"]]
        ELSE IF fault = "upsert_metadata"
        THEN [q |-> created, raised |-> fault,
              result |-> [success |-> FALSE, message |-> "error"]]
        ELSE [q |-> _update_router_index(stored, kb_name, description, fault),
              raised |-> RouterFault(description, fault),
              result |-> [success |-> TRUE,
                          kb_name |-> kb_name,
                          collection_name |-> collection_name,
                          description |-> description]]

(***************************************************************************)
(* create_collection: the new store, the returned dict, and the call that   *)
(* raised ("none" when every call that was reached returned)               *)
(***************************************************************************)
create_collection(q, kb_name, description, fault) ==
    LET collection_name == _get_collection_name(kb_name)
        created == [c \in DOMAIN q \cup {collection_name} |->
                        IF c = collection_name THEN <<>> ELSE q[c]]
        metadata_point == [_type |-> "collection_metadata",
                           kb_name |-> kb_name,
                           description |-> description,
                           document_count |-> 0]
        stored == Upsert(created, collection_name, NewUuid(<<>>), metadata_point)
    IN  IF collection_exists(q, collection_name)
        THEN [q |-> q, raised |-> "none",
              result |-> [success |-> FALSE,
                          message |-> "already exists",
                          collection_name |-> collection_name]]
        ELSE IF fault = "create_collection"
        THEN [q |-> q, raised |-> fault,
              result |-> [success |-> FALSE, message |-> "error"]]
        ELSE IF fault = "upsert_metadata"
        THEN [q |-> created, raised |-> fault,
              result |-> [success |-> FALSE, message |-> "error"]]
        ELSE [q |-> _update_router_index(stored, kb_name, description, fault),
              raised |-> RouterFault(description, fault),
              result |-> [success |-> TRUE,
                          kb_name |-> kb_name,
                          collection_name |-> collection_name,
                          description |-> description]]

(***************************************************************************)
(* Ingestion                                                               *)
(***************************************************************************)
\* A file is its MIME type and the pages its text extraction yields
SupportedTypes == {"application/pdf", "text/plain",
                   "application/vnd.openxmlformats-officedocument.wordprocessingml.document"}

_extract_text_from_file(file) ==
    IF file.content_type \in SupportedTypes
    THEN [i \in 1..Len(file.pages) |-> [page_number |-> i, text |-> file.pages[i]]]
    ELSE <<>>

DefaultMetadata ==
    [doc_type |-> "Unknown", category |-> "General",
     status |-> "Published", title |-> "Untitled Document"]

RequiredFields == {"doc_type", "category", "status", "title"}

\* llm is what self.llm.invoke does on this call: it raises, or it returns
\* text that json.loads rejects, or text that parses to the value llm.value
_extract_metadata_from_text(text, llm) ==
    IF llm.kind = "json" /\ llm.is_dict
    THEN [k \in DOMAIN llm.value \cup RequiredFields |->
            IF k \in DOMAIN llm.value THEN llm.value[k] ELSE "Unknown"]
    ELSE DefaultMetadata

\* the record rag_pipeline._extract_metadata_from_text falls back to
PipelineDefaultMetadata ==
    [doc_type |-> "Unknown", category |-> "Unknown",
     status |-> "Unknown", title |-> "N/A"]

\* rag_pipeline._extract_metadata_from_text: a parsed dict is returned as it
\* is, anything else gives the fallback record
rag_pipeline_extract_metadata_from_text(text, llm) ==
    IF llm.kind = "json" /\ llm.is_dict
    THEN llm.value
    ELSE PipelineDefaultMetadata

\* the text splitter yields chunks only for pages that have text
SplitDocuments(documents) ==
    SelectSeq(documents, LAMBDA d : d.page_content # "")

\* rag_pipeline.index_document: (ok, extracted_metadata) and, as split_docs,
\* the chunks handed to the vector store; llm_called tells whether the
\* metadata extractor was reached
index_document(file, file_name, llm, fault) ==
    LET page_data_list == _extract_text_from_file(file)
        first_page_text == page_data_list[1].text
        extracted_metadata ==
            IF first_page_text = ""
            THEN PipelineDefaultMetadata
            ELSE rag_pipeline_extract_metadata_from_text(first_page_text, llm)
        documents == [i \in 1..Len(page_data_list) |->
                        [page_content |-> page_data_list[i].text,
                         metadata |->
                            Merge(extracted_metadata,
                                  [file_name |-> file_name,
                                   page_number |-> page_data_list[i].page_number])]]
    IN  IF page_data_list = <<>>
        THEN [ok |-> FALSE, extracted_metadata |-> None, llm_called |-> FALSE,
              split_docs |-> <<>>, raised |-> "none"]
        ELSE IF fault = "add_documents"
        THEN [ok |-> FALSE, extracted_metadata |-> None,
              llm_called |-> first_page_text # "",
              split_docs |-> <<>>, raised |-> fault]
        ELSE [ok |-> TRUE, extracted_metadata |-> extracted_metadata,
              llm_called |-> first_page_text # "",
              split_docs |-> SplitDocuments(documents), raised |-> "none"]

\* vector_store.add_documents: every chunk becomes a point with a fresh id
RECURSIVE AddDocuments(_, _, _)
AddDocuments(q, collection_name, docs) ==
    IF docs = <<>>
    THEN q
    ELSE AddDocuments(
            Upsert(q, collection_name, NewUuid(q[collection_name]), Head(docs)),
            collection_name, Tail(docs))

\* A mutation of the metadata merge: the AI fields are spread last
DocMetadataAiLast(kb_name, filename, page_number, ai_metadata, metadata) ==
    Merge(Merge([kb_name |-> kb_name,
                 filename |-> filename,
                 page_number |-> page_number],
                metadata),
          ai_metadata)

\* {system fields, **ai_metadata, **(metadata or {})}
doc_metadata(kb_name, filename, page_number, ai_metadata, metadata) ==
    Merge(Merge([kb_name |-> kb_name,
                 filename |-> filename,
                 page_number |-> page_number],
                ai_metadata),
          metadata)

\* A mutation of step 4: auto_create is ignored, a missing collection is created
EnsureCollectionAlways(q, kb_name, description, auto_create, ai_metadata, fault) ==
    IF collection_exists(q, _get_collection_name(kb_name))
    THEN [q |-> q, raised |-> "none", result |-> [success |-> TRUE]]
    ELSE create_collection(q, kb_name, description, fault)

\* Step 4 of upload_document: a missing collection is created when auto_create
\* is set, and the upload is refused otherwise
EnsureCollection(q, kb_name, description, auto_create, ai_metadata, fault) ==
    IF collection_exists(q, _get_collection_name(kb_name))
    THEN [q |-> q, raised |-> "none", result |-> [success |-> TRUE]]
    ELSE IF auto_create
    THEN create_collection(q, kb_name, description, fault)
    ELSE [q |-> q, raised |-> "none",
          result |-> [success |-> FALSE,
                      message |-> "does not exist",
                      suggestion |-> "set auto_create",
                      ai_metadata |-> ai_metadata]]

\* A mutation of upload_document: the collection is ensured before the
\* extracted pages are looked at
UploadCreatingFirst(q, kb_name, file, filename, auto_create, metadata, llm, fault) ==
    LET collection_name == _get_collection_name(kb_name)
        page_data_list == _extract_text_from_file(file)
        has_text == page_data_list # <<>> /\ page_data_list[1].text # ""
        ai_metadata == IF has_text
                       THEN _extract_metadata_from_text(page_data_list[1].text, llm)
                       ELSE EmptyDict
        smart_description == IF has_text
                             THEN _generate_smart_description(ai_metadata, filename)
                             ELSE AutoDescription(filename)
        made == EnsureCollection(q, kb_name, smart_description, auto_create,
                                 ai_metadata, AtCreation(fault))
        documents == [i \in 1..Len(page_data_list) |->
                        [page_content |-> page_data_list[i].text,
                         metadata |->
                            doc_metadata(kb_name, filename,
                                         page_data_list[i].page_number,
                                         ai_metadata, metadata)]]
        split_docs == SplitDocuments(documents)
    IN  IF page_data_list = <<>>
        THEN [q |-> made.q, raised |-> made.raised, llm_called |-> FALSE,
              result |-> [success |-> FALSE, message |-> "failed to extract text"]]
        ELSE IF ~made.result.success
        THEN Merge(made, [llm_called |-> has_text])
        ELSE IF fault = "add_documents"
        THEN [q |-> made.q, raised |-> fault, llm_called |-> has_text,
              result |-> [success |-> FALSE,
                          message |-> "failed to store",
                          ai_metadata |-> ai_metadata]]
        ELSE [q |-> _update_router_index(
                        AddDocuments(made.q, collection_name, split_docs),
                        kb_name, smart_description, AfterStore(fault)),
              raised |-> UploadRaised(made, smart_description, fault),
              llm_called |-> has_text,
              result |-> [success |-> TRUE,
                          kb_name |-> kb_name,
                          collection_name |-> collection_name,
                          filename |-> filename,
                          chunks |-> Len(split_docs),
                          pages |-> Len(page_data_list),
                          ai_metadata |-> ai_metadata,
                          collection_description |-> smart_description]]

\* A mutation of upload_document: a failure to store the chunks undoes the
\* creation of the collection
UploadRollingBack(q, kb_name, file, filename, auto_create, metadata, llm, fault) ==
    LET collection_name == _get_collection_name(kb_name)
        page_data_list == _extract_text_from_file(file)
        has_text == page_data_list # <<>> /\ page_data_list[1].text # ""
        ai_metadata == IF has_text
                       THEN _extract_metadata_from_text(page_data_list[1].text, llm)
                       ELSE EmptyDict
        smart_description == IF has_text
                             THEN _generate_smart_description(ai_metadata, filename)
                             ELSE AutoDescription(filename)
        made == EnsureCollection(q, kb_name, smart_description, auto_create,
                                 ai_metadata, AtCreation(fault))
        documents == [i \in 1..Len(page_data_list) |->
                        [page_content |-> page_data_list[i].text,
                         metadata |->
                            doc_metadata(kb_name, filename,
                                         page_data_list[i].page_number,
                                         ai_metadata, metadata)]]
        split_docs == SplitDocuments(documents)
    IN  IF page_data_list = <<>>
        THEN [q |-> q, raised |-> "none", llm_called |-> FALSE,
              result |-> [success |-> FALSE, message |-> "failed to extract text"]]
        ELSE IF ~made.result.success
        THEN Merge(made, [llm_called |-> has_text])
        ELSE IF fault = "add_documents"
        THEN [q |-> q, raised |-> fault, llm_called |-> has_text,
              result |-> [success |-> FALSE,
                          message |-> "failed to store",
                          ai_metadata |-> ai_metadata]]
        ELSE [q |-> _update_router_index(
                        AddDocuments(made.q, collection_name, split_docs),
                        kb_name, smart_description, AfterStore(fault)),
              raised |-> UploadRaised(made, smart_description, fault),
              llm_called |-> has_text,
              result |-> [success |-> TRUE,
                          kb_name |-> kb_name,
                          collection_name |-> collection_name,
                          filename |-> filename,
                          chunks |-> Len(split_docs),
                          pages |-> Len(page_data_list),
                          ai_metadata |-> ai_metadata,
                          collection_description |-> smart_description]]

\* llm_called tells whether self.llm.invoke was reached
upload_document(q, kb_name, file, filename, auto_create, metadata, llm, fault) ==
    LET collection_name == _get_collection_name(kb_name)
        page_data_list == _extract_text_from_file(file)
        has_text == page_data_list # <<>> /\ page_data_list[1].text # ""
        ai_metadata == IF has_text
                       THEN _extract_metadata_from_text(page_data_list[1].text, llm)
                       ELSE EmptyDict
        smart_description == IF has_text
                             THEN _generate_smart_description(ai_metadata, filename)
                             ELSE AutoDescription(filename)
        made == EnsureCollection(q, kb_name, smart_description, auto_create,
                                 ai_metadata, AtCreation(fault))
        documents == [i \in 1..Len(page_data_list) |->
                        [page_content |-> page_data_list[i].text,
                         metadata |->
                            doc_metadata(kb_name, filename,
                                         page_data_list[i].page_number,
                                         ai_metadata, metadata)]]
        split_docs == SplitDocuments(documents)
    IN  IF page_data_list = <<>>
        THEN [q |-> q, raised |-> "none", llm_called |-> FALSE,
              result |-> [success |-> FALSE, message |-> "failed to extract text"]]
        ELSE IF ~made.result.success
        THEN Merge(made, [llm_called |-> has_text])
        ELSE IF fault = "add_documents"
        THEN [q |-> made.q, raised |-> fault, llm_called |-> has_text,
              result |-> [success |-> FALSE,
                          message |-> "failed to store",
                          ai_metadata |-> ai_metadata]]
        ELSE [q |-> _update_router_index(
                        AddDocuments(made.q, collection_name, split_docs),
                        kb_name, smart_description, AfterStore(fault)),
              raised |-> UploadRaised(made, smart_description, fault),
              llm_called |-> has_text,
              result |-> [success |-> TRUE,
                          kb_name |-> kb_name,
                          collection_name |-> collection_name,
                          filename |-> filename,
                          chunks |-> Len(split_docs),
                          pages |-> Len(page_data_list),
                          ai_metadata |-> ai_metadata,
                          collection_description |-> smart_description]]

(***************************************************************************)
(* Listing, inspection, deletion                                           *)
(***************************************************************************)
\* the payload of the first point that the metadata scroll returns, or None
ScrollMetadata(q, collection_name) ==
    IF SentinelIds(q, collection_name) = {}
    THEN None
    ELSE q[collection_name][CHOOSE i \in SentinelIds(q, collection_name) : TRUE]

StartsWithKb(name) == Len(name) >= 3 /\ SubSeq(name, 1, 3) = <<"k", "b", "_">>

\* list_collections raises into its outer except: get_collections fails, or
\* get_collection fails for a collection with the KB prefix
ListRaises(q, fault) ==
    \/ fault = "get_collections"
    \/ fault = "get_collection" /\ \E n \in DOMAIN q : StartsWithKb(n)

\* A mutation of list_collections: a collection without a readable sentinel is
\* left out
ListCollectionsSkippingBare(q, fault) ==
    IF ListRaises(q, fault)
    THEN [success |-> FALSE, message |-> "error", collections |-> {}]
    ELSE LET kb_list ==
                { [kb_name |-> SubSeq(c, 4, Len(c)),
                   collection_name |-> c,
                   description |-> Get(ScrollMetadata(q, c), "description",
                                       <<"No description">>),
                   points_count |-> Cardinality(DOMAIN q[c])]
                  : c \in {n \in DOMAIN q : /\ StartsWithKb(n)
                                            /\ fault # "scroll"
                                            /\ ScrollMetadata(q, n) # None} }
         IN  [success |-> TRUE, count |-> Cardinality(kb_list), collections |-> kb_list]

\* A mutation of list_collections: the except branch returns no success flag
ListCollectionsUnflagged(q, fault) ==
    IF ListRaises(q, fault)
    THEN [message |-> "error", collections |-> {}]
    ELSE LET kb_list ==
                { [kb_name |-> SubSeq(c, 4, Len(c)),
                   collection_name |-> c,
                   description |->
                        IF fault = "scroll" \/ ScrollMetadata(q, c) = None
                        THEN <<"No description">>
                        ELSE Get(ScrollMetadata(q, c), "description", <<"No description">>),
                   points_count |-> Cardinality(DOMAIN q[c])]
                  : c \in {n \in DOMAIN q : StartsWithKb(n)} }
         IN  [success |-> TRUE, count |-> Cardinality(kb_list), collections |-> kb_list]

list_collections(q, fault) ==
    IF ListRaises(q, fault)
    THEN [success |-> FALSE, message |-> "error", collections |-> {}]
    ELSE LET kb_list ==
                { [kb_name |-> SubSeq(c, 4, Len(c)),
                   collection_name |-> c,
                   description |->
                        IF fault = "scroll" \/ ScrollMetadata(q, c) = None
                        THEN <<"No description">>
                        ELSE Get(ScrollMetadata(q, c), "description", <<"No description">>),
                   points_count |-> Cardinality(DOMAIN q[c])]
                  : c \in {n \in DOMAIN q : StartsWithKb(n)} }
         IN  [success |-> TRUE, count |-> Cardinality(kb_list), collections |-> kb_list]

get_collection_info(q, kb_name) ==
    LET collection_name == _get_collection_name(kb_name)
    IN  IF ~collection_exists(q, collection_name)
        THEN None
        ELSE [kb_name |-> kb_name,
              collection_name |-> collection_name,
              points_count |-> Cardinality(DOMAIN q[collection_name]),
              metadata |-> ScrollMetadata(q, collection_name)]

\* A mutation of delete_collection: the chat histories are left as they are
DeleteKeepingSessions(q, h, kb_name, fault) ==
    LET collection_name == _get_collection_name(kb_name)
    IN  IF ~collection_exists(q, collection_name)
        THEN [q |-> q, h |-> h, raised |-> "none",
              result |-> [success |-> FALSE, message |-> "not found"]]
        ELSE IF fault = "delete_collection"
        THEN [q |-> q, h |-> h, raised |-> fault,
              result |-> [success |-> FALSE, message |-> "error"]]
        ELSE [q |-> [c \in DOMAIN q \ {collection_name} |-> q[c]],
              h |-> h,
              raised |-> "none",
              result |-> [success |-> TRUE, message |-> "deleted successfully"]]

\* A mutation of delete_collection: the RouterEntry of the knowledge base is
\* deleted with it
DeleteUnregistering(q, h, kb_name, fault) ==
    LET collection_name == _get_collection_name(kb_name)
        kept == [c \in DOMAIN q \ {collection_name} |-> q[c]]
    IN  IF ~collection_exists(q, collection_name)
        THEN [q |-> q, h |-> h, raised |-> "none",
              result |-> [success |-> FALSE, message |-> "not found"]]
        ELSE IF fault = "delete_collection"
        THEN [q |-> q, h |-> h, raised |-> fault,
              result |-> [success |-> FALSE, message |-> "error"]]
        ELSE [q |-> IF collection_exists(q, ROUTER_COLLECTION_NAME)
                    THEN [kept EXCEPT ![ROUTER_COLLECTION_NAME] =
                            [i \in DOMAIN @ \ {collection_name} |-> @[i]]]
                    ELSE kept,
              h |-> [c \in DOMAIN h \ {collection_name} |-> h[c]],
              raised |-> "none",
              result |-> [success |-> TRUE, message |-> "deleted successfully"]]

\* the new store, the new chat histories and the returned dict
delete_collection(q, h, kb_name, fault) ==
    LET collection_name == _get_collection_name(kb_name)
    IN  IF ~collection_exists(q, collection_name)
        THEN [q |-> q, h |-> h, raised |-> "none",
              result |-> [success |-> FALSE, message |-> "not found"]]
        ELSE IF fault = "delete_collection"
        THEN [q |-> q, h |-> h, raised |-> fault,
              result |-> [success |-> FALSE, message |-> "error"]]
        ELSE [q |-> [c \in DOMAIN q \ {collection_name} |-> q[c]],
              h |-> [c \in DOMAIN h \ {collection_name} |-> h[c]],
              raised |-> "none",
              result |-> [success |-> TRUE, message |-> "deleted successfully"]]

(***************************************************************************)
(* Chat: chat_histories maps a collection name to its sessions, and a      *)
(* session id to the (query, answer) turns of its ConversationBufferMemory *)
(***************************************************************************)
\* the chat histories once the memory of (collection_name, session_id) exists
_get_or_create_memory(h, collection_name, session_id) ==
    LET outer == IF collection_name \in DOMAIN h
                 THEN h
                 ELSE [c \in DOMAIN h \cup {collection_name} |->
                        IF c = collection_name THEN <<>> ELSE h[c]]
    IN  IF session_id \in DOMAIN outer[collection_name]
        THEN outer
        ELSE [outer EXCEPT ![collection_name] =
                [s \in DOMAIN @ \cup {session_id} |->
                    IF s = session_id THEN <<>> ELSE @[s]]]

\* A mutation of the chain: it saves the question before it retrieves
ChainSavingFirst(h, collection_name, session_id, query, answer, fault) ==
    IF fault = "chain"
    THEN [h |-> [h EXCEPT ![collection_name][session_id] = Append(@, <<query, "">>)],
          ok |-> FALSE]
    ELSE [h |-> [h EXCEPT ![collection_name][session_id] = Append(@, <<query, answer>>)],
          ok |-> TRUE]

\* A mutation of the chain: the new turn replaces the memory
ChainOverwriting(h, collection_name, session_id, query, answer, fault) ==
    IF fault = "chain"
    THEN [h |-> h, ok |-> FALSE]
    ELSE [h |-> [h EXCEPT ![collection_name][session_id] = <<<<query, answer>>>>],
          ok |-> TRUE]

\* qa_chain({"question": query}): the chain loads the memory, retrieves and
\* calls the LLM, and saves the turn to the memory only when all of it
\* returned; an exception leaves the memory as it was.
Chain(h, collection_name, session_id, query, answer, fault) ==
    IF fault = "chain"
    THEN [h |-> h, ok |-> FALSE]
    ELSE [h |-> [h EXCEPT ![collection_name][session_id] = Append(@, <<query, answer>>)],
          ok |-> TRUE]

\* the kb_name of every entry of list_collections(); a failed listing has none
AvailableKbs(q, fault) ==
    {info.kb_name : info \in list_collections(q, fault).collections}

\* the call of list_collections that raises under this fault
ListFault(fault) == IF fault = "get_collections" THEN fault ELSE "none"

Min(a, b) == IF a <= b THEN a ELSE b

\* What the retriever can return for search_kwargs {"k": top_k}: the top_k
\* nearest points of the collection, all of them when it holds no more.  Which
\* points are nearest is the embedding's choice; no filter is passed.
Retrievals(q, collection_name, top_k) ==
    IF ~collection_exists(q, collection_name)
    THEN {{}}
    ELSE {ids \in SUBSET DOMAIN q[collection_name] :
            Cardinality(ids) = Min(top_k, Cardinality(DOMAIN q[collection_name]))}

\* result["source_documents"] formatted: the document of a point has the
\* payload's page_content ("" when it has none) and its metadata, with the
\* point id under "_id"
Sources(q, collection_name, ids) ==
    {[content |-> <<Get(q[collection_name][id], "page_content", ""), "...">>,
      metadata |-> Merge(Get(q[collection_name][id], "metadata", EmptyDict), [_id |-> id])] :
        id \in ids}

\* A mutation of chat_with_collection: the memory of the session is kept only
\* when the chain returned
ChatKeepingMemoryOnSuccess(q, h, kb_name, query, session_id, top_k, retrieved, answer, fault) ==
    LET collection_name == _get_collection_name(kb_name)
        memory == _get_or_create_memory(h, collection_name, session_id)
        ran == Chain(memory, collection_name, session_id, query, answer, fault)
    IN  IF ~collection_exists(q, collection_name)
        THEN [h |-> h, raised |-> ListFault(fault),
              result |-> [success |-> FALSE,
                          message |-> "does not exist",
                          suggestion |-> "upload documents first",
                          available_kbs |-> AvailableKbs(q, fault)]]
        ELSE IF ~ran.ok
        THEN [h |-> h, raised |-> fault,
              result |-> [success |-> FALSE, message |-> "error"]]
        ELSE [h |-> ran.h, raised |-> "none",
              result |-> [success |-> TRUE,
                          kb_name |-> kb_name,
                          session_id |-> session_id,
                          answer |-> answer,
                          sources |-> Sources(q, collection_name, retrieved)]]

\* A mutation of chat_with_collection: the memory of the session is created
\* before the knowledge base is looked up
ChatCreatingMemoryFirst(q, h, kb_name, query, session_id, top_k, retrieved, answer, fault) ==
    LET collection_name == _get_collection_name(kb_name)
        memory == _get_or_create_memory(h, collection_name, session_id)
        ran == Chain(memory, collection_name, session_id, query, answer, fault)
    IN  IF ~collection_exists(q, collection_name)
        THEN [h |-> memory, raised |-> ListFault(fault),
              result |-> [success |-> FALSE,
                          message |-> "does not exist",
                          suggestion |-> "upload documents first",
                          available_kbs |-> AvailableKbs(q, fault)]]
        ELSE IF ~ran.ok
        THEN [h |-> ran.h, raised |-> fault,
              result |-> [success |-> FALSE, message |-> "error"]]
        ELSE [h |-> ran.h, raised |-> "none",
              result |-> [success |-> TRUE,
                          kb_name |-> kb_name,
                          session_id |-> session_id,
                          answer |-> answer,
                          sources |-> Sources(q, collection_name, retrieved)]]

\* retrieved is the set of points the retriever returns on this call
chat_with_collection(q, h, kb_name, query, session_id, top_k, retrieved, answer, fault) ==
    LET collection_name == _get_collection_name(kb_name)
        memory == _get_or_create_memory(h, collection_name, session_id)
        ran == Chain(memory, collection_name, session_id, query, answer, fault)
    IN  IF ~collection_exists(q, collection_name)
        THEN [h |-> h, raised |-> ListFault(fault),
              result |-> [success |-> FALSE,
                          message |-> "does not exist",
                          suggestion |-> "upload documents first",
                          available_kbs |-> AvailableKbs(q, fault)]]
        ELSE IF ~ran.ok
        THEN [h |-> ran.h, raised |-> fault,
              result |-> [success |-> FALSE, message |-> "error"]]
        ELSE [h |-> ran.h, raised |-> "none",
              result |-> [success |-> TRUE,
                          kb_name |-> kb_name,
                          session_id |-> session_id,
                          answer |-> answer,
                          sources |-> Sources(q, collection_name, retrieved)]]

\* A mutation of clear_chat_history: every session of the knowledge base goes
ClearAllSessions(h, kb_name, session_id) ==
    IF /\ _get_collection_name(kb_name) \in DOMAIN h
       /\ session_id \in DOMAIN h[_get_collection_name(kb_name)]
    THEN [h |-> [h EXCEPT ![_get_collection_name(kb_name)] = <<>>],
          result |-> [success |-> TRUE, message |-> "cleared"]]
    ELSE [h |-> h, result |-> [success |-> FALSE, message |-> "Session not found"]]

\* A mutation of clear_chat_history: a session that is not there counts as
\* cleared
ClearReportingSuccess(h, kb_name, session_id) ==
    LET collection_name == _get_collection_name(kb_name)
    IN  IF collection_name \in DOMAIN h /\ session_id \in DOMAIN h[collection_name]
        THEN [h |-> [h EXCEPT ![collection_name] =
                        [s \in DOMAIN @ \ {session_id} |-> @[s]]],
              result |-> [success |-> TRUE, message |-> "cleared"]]
        ELSE [h |-> h, result |-> [success |-> TRUE, message |-> "cleared"]]

clear_chat_history(h, kb_name, session_id) ==
    LET collection_name == _get_collection_name(kb_name)
    IN  IF collection_name \in DOMAIN h /\ session_id \in DOMAIN h[collection_name]
        THEN [h |-> [h EXCEPT ![collection_name] =
                        [s \in DOMAIN @ \ {session_id} |-> @[s]]],
              result |-> [success |-> TRUE, message |-> "cleared"]]
        ELSE [h |-> h, result |-> [success |-> FALSE, message |-> "Session not found"]]

(***************************************************************************)
(* Routing                                                                 *)
(***************************************************************************)
\* A mutation of the threshold test: a score equal to the threshold is rejected
BelowOrAtThreshold(score) == score <= ROUTER_SIMILARITY_THRESHOLD

\* score < self.ROUTER_SIMILARITY_THRESHOLD
BelowThreshold(score) == score < ROUTER_SIMILARITY_THRESHOLD

\* the router index exists and points_count is not 0
RouteReaches(q) ==
    /\ collection_exists(q, ROUTER_COLLECTION_NAME)
    /\ Cardinality(DOMAIN q[ROUTER_COLLECTION_NAME]) # 0

\* A mutation of route_to_kb: with nothing to route to it guesses a KB
RouteToKbGuessing(q, query, best, score, fault) ==
    IF ~RouteReaches(q)
    THEN IF KBCollections(q) # {}
         THEN [kb_name |-> SubSeq(CHOOSE c \in KBCollections(q) : TRUE, 4,
                                  Len(CHOOSE c \in KBCollections(q) : TRUE)),
               score |-> score]
         ELSE None
    ELSE IF fault \in {"embed_query", "search"}
    THEN None
    ELSE IF BelowThreshold(score)
    THEN None
    ELSE [kb_name |-> q[ROUTER_COLLECTION_NAME][best].kb_name, score |-> score]

\* best is the id of the router point the search ranks first and score its
\* similarity to the query; both are the embedding model's and the store's
\* choice.  An exception anywhere inside yields None.  The returned tuple
\* (kb_name, score) is a record of its two components.
route_to_kb(q, query, best, score, fault) ==
    IF ~RouteReaches(q)
    THEN None
    ELSE IF fault \in {"embed_query", "search"}
    THEN None
    ELSE IF BelowThreshold(score)
    THEN None
    ELSE [kb_name |-> q[ROUTER_COLLECTION_NAME][best].kb_name, score |-> score]

\* A mutation of chat_auto_route: when nothing is routed it chats with a
\* knowledge base of its own choice
ChatAutoRouteFallback(q, h, query, session_id, top_k, retrieved, best, score, answer, fault) ==
    LET routing_result == route_to_kb(q, query, best, score, fault)
        fallback == CHOOSE c \in KBCollections(q) : TRUE
        chat == chat_with_collection(q, h, routing_result.kb_name, query, session_id,
                                     top_k, retrieved, answer, fault)
    IN  IF routing_result = None /\ fault = "none" /\ KBCollections(q) # {}
        THEN chat_with_collection(q, h, SubSeq(fallback, 4, Len(fallback)), query,
                                  session_id, top_k, {}, answer, fault)
        ELSE IF routing_result = None
        THEN [h |-> h,
              raised |-> IF RouteReaches(q) /\ fault \in {"embed_query", "search"}
                         THEN fault ELSE ListFault(fault),
              result |-> [success |-> FALSE,
                          message |-> "no knowledge base",
                          suggestion |-> "specify a knowledge base",
                          query |-> query,
                          available_kbs |-> AvailableKbs(q, fault),
                          routing_attempted |-> TRUE,
                          routing_failed |-> TRUE]]
        ELSE IF chat.result.success
        THEN [h |-> chat.h, raised |-> "none",
              result |-> Merge(chat.result,
                               [routed_to |-> routing_result.kb_name,
                                routing_confidence |-> routing_result.score,
                                routing_method |-> "semantic_similarity"])]
        ELSE chat

\* A mutation of chat_auto_route: the routing fields are added to every
\* delegated result, failed or not
ChatAutoRouteTagging(q, h, query, session_id, top_k, retrieved, best, score, answer, fault) ==
    LET routing_result == route_to_kb(q, query, best, score, fault)
        chat == chat_with_collection(q, h, routing_result.kb_name, query, session_id,
                                     top_k, retrieved, answer, fault)
    IN  IF routing_result = None
        THEN [h |-> h,
              raised |-> IF RouteReaches(q) /\ fault \in {"embed_query", "search"}
                         THEN fault ELSE ListFault(fault),
              result |-> [success |-> FALSE,
                          message |-> "no knowledge base",
                          suggestion |-> "specify a knowledge base",
                          query |-> query,
                          available_kbs |-> AvailableKbs(q, fault),
                          routing_attempted |-> TRUE,
                          routing_failed |-> TRUE]]
        ELSE [h |-> chat.h, raised |-> chat.raised,
              result |-> Merge(chat.result,
                               [routed_to |-> routing_result.kb_name,
                                routing_confidence |-> routing_result.score,
                                routing_method |-> "semantic_similarity"])]

\* A mutation of chat_auto_route: routed chats keep a memory of their own
\* per KB, apart from the one of the session_id they were given
ChatAutoRouteOwnMemory(q, h, query, session_id, top_k, retrieved, best, score, answer, fault) ==
    LET routing_result == route_to_kb(q, query, best, score, fault)
        chat == chat_with_collection(q, h, routing_result.kb_name, query, "auto",
                                     top_k, retrieved, answer, fault)
    IN  IF routing_result = None
        THEN [h |-> h,
              raised |-> IF RouteReaches(q) /\ fault \in {"embed_query", "search"}
                         THEN fault ELSE ListFault(fault),
              result |-> [success |-> FALSE,
                          message |-> "no knowledge base",
                          suggestion |-> "specify a knowledge base",
                          query |-> query,
                          available_kbs |-> AvailableKbs(q, fault),
                          routing_attempted |-> TRUE,
                          routing_failed |-> TRUE]]
        ELSE IF chat.result.success
        THEN [h |-> chat.h, raised |-> "none",
              result |-> Merge(chat.result,
                               [routed_to |-> routing_result.kb_name,
                                routing_confidence |-> routing_result.score,
                                routing_method |-> "semantic_similarity"])]
        ELSE chat

\* A mutation of chat_auto_route: a session is opened for the routed knowledge
\* base before the chat is delegated
ChatAutoRouteOpeningSession(q, h, query, session_id, top_k, retrieved, best, score, answer, fault) ==
    LET routing_result == route_to_kb(q, query, best, score, fault)
        opened == _get_or_create_memory(h, _get_collection_name(routing_result.kb_name),
                                        session_id)
        chat == chat_with_collection(q, opened, routing_result.kb_name, query,
                                     session_id, top_k, retrieved, answer, fault)
    IN  IF routing_result = None
        THEN [h |-> h,
              raised |-> IF RouteReaches(q) /\ fault \in {"embed_query", "search"}
                         THEN fault ELSE ListFault(fault),
              result |-> [success |-> FALSE,
                          message |-> "no knowledge base",
                          suggestion |-> "specify a knowledge base",
                          query |-> query,
                          available_kbs |-> AvailableKbs(q, fault),
                          routing_attempted |-> TRUE,
                          routing_failed |-> TRUE]]
        ELSE IF chat.result.success
        THEN [h |-> chat.h, raised |-> "none",
              result |-> Merge(chat.result,
                               [routed_to |-> routing_result.kb_name,
                                routing_confidence |-> routing_result.score,
                                routing_method |-> "semantic_similarity"])]
        ELSE chat

chat_auto_route(q, h, query, session_id, top_k, retrieved, best, score, answer, fault) ==
    LET routing_result == route_to_kb(q, query, best, score, fault)
        chat == chat_with_collection(q, h, routing_result.kb_name, query, session_id,
                                     top_k, retrieved, answer, fault)
    IN  IF routing_result = None
        THEN [h |-> h,
              raised |-> IF RouteReaches(q) /\ fault \in {"embed_query", "search"}
                         THEN fault ELSE ListFault(fault),
              result |-> [success |-> FALSE,
                          message |-> "no knowledge base",
                          suggestion |-> "specify a knowledge base",
                          query |-> query,
                          available_kbs |-> AvailableKbs(q, fault),
                          routing_attempted |-> TRUE,
                          routing_failed |-> TRUE]]
        ELSE IF chat.result.success
        THEN [h |-> chat.h, raised |-> "none",
              result |-> Merge(chat.result,
                               [routed_to |-> routing_result.kb_name,
                                routing_confidence |-> routing_result.score,
                                routing_method |-> "semantic_similarity"])]
        ELSE chat

(***************************************************************************)
(* Scores of the stateless query endpoint (app/main.py, mcp_server.py).    *)
(* A score here is an integer number of hundred-thousandths: 0.7 is 70000. *)
(***************************************************************************)
\* the score 1.0
One == 100000

\* A mutation of _get_confidence_level: the lower bounds are exclusive
ConfidenceLevelExclusive(score) ==
    IF score > 70000 THEN "high"
    ELSE IF score > 50000 THEN "medium"
    ELSE IF score > 30000 THEN "low"
    ELSE "very_low"

_get_confidence_level(score) ==
    IF score >= 70000 THEN "high"
    ELSE IF score >= 50000 THEN "medium"
    ELSE IF score >= 30000 THEN "low"
    ELSE "very_low"

\* round(score, 4) of a score that is not half-way between two multiples of
\* 0.0001: the nearest multiple of 0.0001
Round4(score) == ((score + 5) \div 10) * 10

\* A mutation of the fallback: the position is counted from 1
SourceScoreOneBased(metadata, idx) ==
    Get(metadata, "relevance_score", One - ((idx + 1) * (One \div 10)))

\* node.metadata.get("relevance_score", 1.0 - (idx * 0.1))
SourceScore(metadata, idx) ==
    Get(metadata, "relevance_score", One - (idx * (One \div 10)))

\* the source_nodes of query_endpoint: idx is the 0-based position
query_endpoint(source_nodes_data) ==
    [i \in 1..Len(source_nodes_data) |->
        LET score == SourceScore(source_nodes_data[i].metadata, i - 1)
        IN  [score |-> Round4(score),
             confidence |-> _get_confidence_level(score),
             file_name |-> Get(source_nodes_data[i].metadata, "file_name", "Unknown"),
             page_number |-> Get(source_nodes_data[i].metadata, "page_number", 0)]]

\* the sources of tool_query_documents
tool_query_documents(source_nodes_data) ==
    [i \in 1..Len(source_nodes_data) |->
        LET score == SourceScore(source_nodes_data[i].metadata, i - 1)
        IN  [score |-> Round4(score),
             file_name |-> Get(source_nodes_data[i].metadata, "file_name", "Unknown"),
             page_number |-> Get(source_nodes_data[i].metadata, "page_number", 0)]]

(***************************************************************************)
(* Inputs of the operations                                                *)
(***************************************************************************)
CreateDescriptions == {EmptyDescription, PlaceholderDescription, ManualDescription}

TextFile == [content_type |-> "text/plain", pages |-> <<"fee is 500 baht">>]
BlankPdf == [content_type |-> "application/pdf", pages |-> <<"">>]
ImageFile == [content_type |-> "image/png", pages |-> <<"pixels">>]
Files == {TextFile, BlankPdf, ImageFile}
\* a PDF whose first page has no text and whose second page has
BlankFirstPagePdf == [content_type |-> "application/pdf",
                      pages |-> <<"", "fee is 500 baht">>]
\* a text file whose bytes are not UTF-8: the decode raises and no page results
UndecodableText == [content_type |-> "text/plain", pages |-> <<>>]

LLMRaises == [kind |-> "raise"]
LLMAnswersJson ==
    [kind |-> "json", is_dict |-> TRUE,
     value |-> [doc_type |-> "Act", title |-> "Firearms Act",
                category |-> "Legal", status |-> "Unknown"]]
LLMResponses == {LLMAnswersJson}

\* the LLM answers text that json.loads rejects
LLMAnswersText == [kind |-> "text"]
\* the LLM answers JSON that is a list
LLMAnswersList == [kind |-> "json", is_dict |-> FALSE]
\* the LLM answers a JSON object that has only the given fields
LLMAnswersFields(fields) ==
    [kind |-> "json", is_dict |-> TRUE,
     value |-> [k \in fields |-> LLMAnswersJson.value[k]]]
\* the LLM answers an object that also has a key of the system fields
LLMAnswersOverriding ==
    [kind |-> "json", is_dict |-> TRUE,
     value |-> Merge(LLMAnswersJson.value, [filename |-> "ai.pdf"])]
\* the caller's metadata: none, or fields that the other layers also define
CallerMetadata ==
    {EmptyDict,
     [title |-> "Caller title", filename |-> "caller.pdf", note |-> "checked"]}
\* everything the metadata extractor can get from the LLM
ExtractorResponses ==
    {LLMRaises, LLMAnswersText, LLMAnswersList}
        \cup {LLMAnswersFields(fields) : fields \in SUBSET RequiredFields}

UserMetadata == {EmptyDict}

\* top_k: int = 5
DefaultTopK == 5

\* similarity scores around the threshold, in hundredths
Scores == {39, 40, 41}
\* a score that fails the threshold and one that passes it
RouteScores == {39, 40}

(***************************************************************************)
(* State machine                                                           *)
(***************************************************************************)
\* __init__: no chat history; _ensure_router_index creates the router index
\* unless that request fails, which is logged and ignored
Init ==
    /\ qdrant \in { [c \in {ROUTER_COLLECTION_NAME} |-> <<>>], << >> }
    /\ chat_histories = <<>>
    /\ last = [op |-> "init"]
    /\ calls = [p \in Callers |-> Idle]
    /\ session_histories = <<>>
    /\ lists = <<>>

TotalChunks(q) ==
    Cardinality({<<c, i>> \in UNION {{c} \X DOMAIN q[c] : c \in KBCollections(q)} :
                    ~IsSentinel(q[c][i])})

RECURSIVE SumLen(_, _)
SumLen(h, slots) ==
    IF slots = {}
    THEN 0
    ELSE LET slot == CHOOSE x \in slots : TRUE
         IN  Len(h[slot[1]][slot[2]]) + SumLen(h, slots \ {slot})

TotalTurns(h) == SumLen(h, UNION {{c} \X DOMAIN h[c] : c \in DOMAIN h})

CreateCollection(kb_name, description, fault) ==
    \E r \in {create_collection(qdrant, kb_name, description, fault)} :
        /\ r.raised = fault
        /\ qdrant' = r.q
        /\ UNCHANGED server
        /\ last' = [op |-> "create_collection", kb_name |-> kb_name,
                    collection_name |-> _get_collection_name(kb_name),
                    existed |-> collection_exists(qdrant, _get_collection_name(kb_name)),
                    fault |-> fault, result |-> r.result]
        /\ UNCHANGED chat_histories

UploadDocument(kb_name, file, filename, auto_create, metadata, llm, fault) ==
    \E r \in {upload_document(qdrant, kb_name, file, filename, auto_create, metadata,
                             llm, fault)} :
        /\ r.raised = fault
        /\ TotalChunks(r.q) <= MaxChunks
        /\ qdrant' = r.q
        /\ UNCHANGED server
        /\ last' = [op |-> "upload_document", kb_name |-> kb_name,
                    collection_name |-> _get_collection_name(kb_name),
                    existed |-> collection_exists(qdrant, _get_collection_name(kb_name)),
                    pages |-> Len(_extract_text_from_file(file)),
                    first_page |-> IF _extract_text_from_file(file) = <<>>
                                   THEN ""
                                   ELSE _extract_text_from_file(file)[1].text,
                    content_type |-> file.content_type,
                    metadata |-> metadata,
                    llm_called |-> r.llm_called,
                    auto_create |-> auto_create,
                    fault |-> fault, result |-> r.result]
        /\ UNCHANGED chat_histories

ListCollections(fault) ==
    /\ UNCHANGED server
    /\ last' = [op |-> "list_collections", fault |-> fault,
                result |-> list_collections(qdrant, fault)]
    /\ UNCHANGED <<qdrant, chat_histories>>

GetCollectionInfo(kb_name) ==
    /\ UNCHANGED server
    /\ last' = [op |-> "get_collection_info", kb_name |-> kb_name,
                collection_name |-> _get_collection_name(kb_name),
                result |-> get_collection_info(qdrant, kb_name)]
    /\ UNCHANGED <<qdrant, chat_histories>>

DeleteCollection(kb_name, fault) ==
    \E r \in {delete_collection(qdrant, chat_histories, kb_name, fault)} :
        /\ r.raised = fault
        /\ qdrant' = r.q
        /\ chat_histories' = r.h
        /\ UNCHANGED server
        /\ last' = [op |-> "delete_collection", kb_name |-> kb_name,
                    collection_name |-> _get_collection_name(kb_name),
                    existed |-> collection_exists(qdrant, _get_collection_name(kb_name)),
                    sessions |-> IF _get_collection_name(kb_name) \in DOMAIN chat_histories
                                 THEN DOMAIN chat_histories[_get_collection_name(kb_name)]
                                 ELSE {},
                    fault |-> fault, result |-> r.result]

ChatWithCollection(kb_name, query, session_id, top_k, answer, fault) ==
    \E retrieved \in Retrievals(qdrant, _get_collection_name(kb_name), top_k) :
    \E r \in {chat_with_collection(qdrant, chat_histories, kb_name, query, session_id,
                                  top_k, retrieved, answer, fault)} :
        /\ r.raised = fault
        /\ TotalTurns(r.h) <= MaxTurns
        /\ chat_histories' = r.h
        /\ UNCHANGED server
        /\ last' = [op |-> "chat_with_collection", kb_name |-> kb_name,
                    collection_name |-> _get_collection_name(kb_name),
                    query |-> query, session_id |-> session_id, top_k |-> top_k,
                    fault |-> fault, result |-> r.result]
        /\ UNCHANGED qdrant

ClearChatHistory(kb_name, session_id) ==
    \E r \in {clear_chat_history(chat_histories, kb_name, session_id)} :
        /\ chat_histories' = r.h
        /\ UNCHANGED server
        /\ last' = [op |-> "clear_chat_history", kb_name |-> kb_name,
                    collection_name |-> _get_collection_name(kb_name),
                    session_id |-> session_id, result |-> r.result]
        /\ UNCHANGED qdrant

\* the router points the search can rank first
Candidates(q) ==
    IF collection_exists(q, ROUTER_COLLECTION_NAME) /\ DOMAIN q[ROUTER_COLLECTION_NAME] # {}
    THEN DOMAIN q[ROUTER_COLLECTION_NAME]
    ELSE {ROUTER_COLLECTION_NAME}

RouteToKb(query, best, score, fault) ==
    /\ fault # "none" => RouteReaches(qdrant)
    /\ UNCHANGED server
    /\ last' = [op |-> "route_to_kb", best |-> best, score |-> score,
                fault |-> fault,
                result |-> route_to_kb(qdrant, query, best, score, fault)]
    /\ UNCHANGED <<qdrant, chat_histories>>

\* the collection a routing result names (the router index itself for None)
RoutedCollection(routing_result) ==
    IF routing_result = None
    THEN ROUTER_COLLECTION_NAME
    ELSE _get_collection_name(routing_result.kb_name)

ChatAutoRoute(query, session_id, top_k, best, score, answer, fault) ==
    \E retrieved \in Retrievals(qdrant,
            RoutedCollection(route_to_kb(qdrant, query, best, score, fault)), top_k) :
    \E r \in {chat_auto_route(qdrant, chat_histories, query, session_id, top_k,
                             retrieved, best, score, answer, fault)} :
        /\ r.raised = fault
        /\ TotalTurns(r.h) <= MaxTurns
        /\ chat_histories' = r.h
        /\ UNCHANGED server
        /\ last' = [op |-> "chat_auto_route", query |-> query,
                    session_id |-> session_id, top_k |-> top_k,
                    routing_result |-> route_to_kb(qdrant, query, best, score, fault),
                    fault |-> fault, result |-> r.result]
        /\ UNCHANGED qdrant

\* Every operation, on two knowledge bases and two sessions.  The first
\* knowledge base is created under one spelling of its name and chatted with
\* and deleted under the other; an upload auto-creates the second one.
NextChat ==
    \/ \E kb_name \in {<<"A", " ", "b">>, <<"C">>} :
            CreateCollection(kb_name, ManualDescription, "none")
    \/ UploadDocument(<<"c">>, TextFile, "f.txt", TRUE, EmptyDict, LLMAnswersJson, "none")
    \/ ListCollections("none")
    \/ \E kb_name \in KBNames : GetCollectionInfo(kb_name)
    \/ \E kb_name \in {<<"a", "-", "b">>, <<"c">>}, fault \in {"none", "delete_collection"} :
            DeleteCollection(kb_name, fault)
    \/ \E kb_name \in {<<"a", "-", "b">>, <<"c">>}, query \in Queries,
          session_id \in Sessions, answer \in Answers, fault \in {"none", "chain"} :
            ChatWithCollection(kb_name, query, session_id, DefaultTopK, answer, fault)
    \/ \E kb_name \in {<<"A", " ", "b">>, <<"c">>}, session_id \in Sessions :
            ClearChatHistory(kb_name, session_id)
    \/ \E best \in Candidates(qdrant), score \in RouteScores :
            RouteToKb("q1", best, score, "none")
    \/ \E best \in Candidates(qdrant), score \in RouteScores,
          answer \in Answers, fault \in {"none", "chain"} :
            ChatAutoRoute("q1", "s1", DefaultTopK, best, score, answer, fault)

\* the construction created the router index
InitRouter ==
    /\ Init
    /\ collection_exists(qdrant, ROUTER_COLLECTION_NAME)

SpecChat == InitRouter /\ [][NextChat]_vars

\* Ingestion, listing and deletion with every description, file and fault
Next ==
    \/ \E kb_name \in AliasNames, description \in CreateDescriptions,
          fault \in {"none", "create_collection", "upsert_metadata", "embed_query",
                     "upsert_router"} :
            CreateCollection(kb_name, description, fault)
    \/ \E kb_name \in OtherNames : CreateCollection(kb_name, ManualDescription, "none")
    \/ \E kb_name \in AliasNames, file \in Files, filename \in Filenames,
          auto_create \in BOOLEAN, metadata \in UserMetadata, llm \in LLMResponses,
          fault \in {"none", "create_collection", "upsert_metadata", "embed_query",
                     "upsert_router", "add_documents"} :
            UploadDocument(kb_name, file, filename, auto_create, metadata, llm, fault)
    \/ \E fault \in {"none", "get_collections"} : ListCollections(fault)
    \/ \E kb_name \in KBNames : GetCollectionInfo(kb_name)
    \/ \E kb_name \in KBNames, fault \in {"none", "delete_collection"} :
            DeleteCollection(kb_name, fault)
    \/ \E best \in Candidates(qdrant), score \in Scores,
          fault \in {"none", "embed_query", "search"} :
            RouteToKb("q1", best, score, fault)

Spec == Init /\ [][Next]_vars

\* The six operations that take a KB name, each under both spellings of one
\* knowledge base; get_collection_info under every spelling of InfoNames
NextNames ==
    \/ \E kb_name \in AliasNames : CreateCollection(kb_name, ManualDescription, "none")
    \/ \E kb_name \in AliasNames, auto_create \in BOOLEAN :
            UploadDocument(kb_name, TextFile, "f.txt", auto_create, EmptyDict,
                           LLMAnswersJson, "none")
    \/ \E kb_name \in InfoNames : GetCollectionInfo(kb_name)
    \/ \E kb_name \in AliasNames : DeleteCollection(kb_name, "none")
    \/ \E kb_name \in AliasNames, query \in Queries :
            ChatWithCollection(kb_name, query, "s1", DefaultTopK, "ans", "none")
    \/ \E kb_name \in AliasNames : ClearChatHistory(kb_name, "s1")

SpecNames == InitRouter /\ [][NextNames]_vars

\* the caller's top_k: fewer than a collection's points, and the default
TopKs == {1, DefaultTopK}

\* Chat, direct and routed, on a knowledge base that is registered in the
\* router index and one that is not, with every failing call of the chat
\* operations and with the listing of the collections failing
NextRoute ==
    \/ CreateCollection(<<"a", "-", "b">>, ManualDescription, "none")
    \/ CreateCollection(<<"c">>, EmptyDescription, "none")
    \/ UploadDocument(<<"a", "-", "b">>, TextFile, "f.txt", FALSE, EmptyDict,
                      LLMAnswersJson, "none")
    \/ DeleteCollection(<<"a", "-", "b">>, "none")
    \/ \E kb_name \in {<<"a", "-", "b">>, <<"c">>}, top_k \in TopKs,
          fault \in {"none", "chain", "get_collections"} :
            ChatWithCollection(kb_name, "q1", "s1", top_k, "ans", fault)
    \/ \E best \in Candidates(qdrant), score \in RouteScores :
            RouteToKb("q1", best, score, "none")
    \/ \E top_k \in TopKs, best \in Candidates(qdrant), score \in RouteScores,
          fault \in {"none", "chain", "embed_query", "search", "get_collections"} :
            ChatAutoRoute("q1", "s1", top_k, best, score, "ans", fault)

SpecRoute == InitRouter /\ [][NextRoute]_vars

\* The eight caller-facing operations on one knowledge base, each with every
\* call of the vector store, the embedding model and the chain failing
NextOps ==
    \/ \E description \in {EmptyDescription, ManualDescription},
          fault \in {"none", "create_collection", "upsert_metadata", "embed_query",
                     "upsert_router"} :
            CreateCollection(<<"a", "-", "b">>, description, fault)
    \/ \E fault \in {"none", "get_collections"} : ListCollections(fault)
    \/ GetCollectionInfo(<<"a", "-", "b">>)
    \/ \E file \in Files \cup {UndecodableText}, auto_create \in BOOLEAN, llm \in LLMResponses,
          fault \in {"none", "create_collection", "upsert_metadata", "embed_query",
                     "upsert_router", "add_documents"} :
            UploadDocument(<<"a", "-", "b">>, file, "f.txt", auto_create, EmptyDict,
                           llm, fault)
    \/ \E fault \in {"none", "chain", "get_collections"} :
            ChatWithCollection(<<"a", "-", "b">>, "q1", "s1", DefaultTopK, "ans", fault)
    \/ \E best \in Candidates(qdrant), score \in RouteScores,
          fault \in {"none", "chain", "embed_query", "search", "get_collections"} :
            ChatAutoRoute("q1", "s1", DefaultTopK, best, score, "ans", fault)
    \/ ClearChatHistory(<<"a", "-", "b">>, "s1")
    \/ \E fault \in {"none", "delete_collection"} :
            DeleteCollection(<<"a", "-", "b">>, fault)

\* the scores a confidence level is asked for: the thresholds and their
\* neighbours, the ends of the scale and beyond, and scores inside each tier
BucketScores ==
    {t + d : t \in {30000, 50000, 70000}, d \in {-1, 0, 1}}
        \cup {-1, 0, 10000, 35000, 55000, 85000, One, One + 1}

\* the metadata of a retrieved node: without a relevance score, or with one
NodeMetadata ==
    {[file_name |-> "f.txt"],
     [file_name |-> "f.txt", relevance_score |-> 87654],
     [file_name |-> "f.txt", page_number |-> 2, relevance_score |-> 30000]}

\* the context of a query: up to MaxSources retrieved nodes
Contexts ==
    UNION {[1..n -> {[metadata |-> m] : m \in NodeMetadata}] : n \in 0..MaxSources}

GetConfidenceLevel(score) ==
    /\ UNCHANGED server
    /\ last' = [op |-> "_get_confidence_level", score |-> score,
                result |-> _get_confidence_level(score)]
    /\ UNCHANGED <<qdrant, chat_histories>>

QueryEndpoint(source_nodes_data) ==
    /\ UNCHANGED server
    /\ last' = [op |-> "query_endpoint", context |-> source_nodes_data,
                result |-> query_endpoint(source_nodes_data)]
    /\ UNCHANGED <<qdrant, chat_histories>>

ToolQueryDocuments(source_nodes_data) ==
    /\ UNCHANGED server
    /\ last' = [op |-> "tool_query_documents", context |-> source_nodes_data,
                result |-> tool_query_documents(source_nodes_data)]
    /\ UNCHANGED <<qdrant, chat_histories>>

\* The stateless query: scoring and bucketing of the returned sources
NextScore ==
    \/ \E score \in BucketScores : GetConfidenceLevel(score)
    \/ \E source_nodes_data \in Contexts : QueryEndpoint(source_nodes_data)
    \/ \E source_nodes_data \in Contexts : ToolQueryDocuments(source_nodes_data)

SpecScore == Init /\ [][NextScore]_vars

ExtractMetadataFromText(llm) ==
    /\ UNCHANGED server
    /\ last' = [op |-> "_extract_metadata_from_text", llm |-> llm,
                result |-> _extract_metadata_from_text("fee is 500 baht", llm)]
    /\ UNCHANGED <<qdrant, chat_histories>>

PipelineExtractMetadataFromText(llm) ==
    /\ UNCHANGED server
    /\ last' = [op |-> "rag_pipeline._extract_metadata_from_text", llm |-> llm,
                result |-> rag_pipeline_extract_metadata_from_text("fee is 500 baht", llm)]
    /\ UNCHANGED <<qdrant, chat_histories>>

IndexDocument(file, file_name, llm, fault) ==
    \E r \in {index_document(file, file_name, llm, fault)} :
        /\ r.raised = fault
        /\ UNCHANGED server
        /\ last' = [op |-> "index_document",
                    pages |-> Len(_extract_text_from_file(file)),
                    first_page |-> IF _extract_text_from_file(file) = <<>>
                                   THEN ""
                                   ELSE _extract_text_from_file(file)[1].text,
                    content_type |-> file.content_type,
                    llm_called |-> r.llm_called,
                    fault |-> fault,
                    split_docs |-> r.split_docs,
                    result |-> [success |-> r.ok,
                                ai_metadata |-> r.extracted_metadata]]
        /\ UNCHANGED <<qdrant, chat_histories>>

SpecOps == InitRouter /\ [][NextOps]_vars

\* Listing two knowledge bases, with and without a sentinel, with and without
\* chunks, under every request of the listing that can fail
NextList ==
    \/ \E kb_name \in {<<"a", "-", "b">>, <<"c">>},
          description \in {EmptyDescription, ManualDescription},
          fault \in {"none", "upsert_metadata"} :
            CreateCollection(kb_name, description, fault)
    \/ UploadDocument(<<"c">>, TextFile, "f.txt", FALSE, EmptyDict, LLMAnswersJson,
                      "none")
    \/ \E kb_name \in {<<"a", "-", "b">>, <<"c">>} : DeleteCollection(kb_name, "none")
    \/ \E fault \in {"none", "get_collections", "get_collection", "scroll"} :
            ListCollections(fault)

SpecList == Init /\ [][NextList]_vars

\* KB names that spell the name of the router index
RouterLikeNames ==
    { ROUTER_COLLECTION_NAME,
      <<"M", "a", "s", "t", "e", "r", " ", "R", "o", "u", "t", "e", "r", "-",
        "I", "n", "d", "e", "x">>,
      <<"r", "o", "u", "t", "e", "r">> }

\* The operations that create, fill, drop and list collections, called with
\* KB names that spell the router index, with and without a router index
NextRouterName ==
    \/ \E kb_name \in RouterLikeNames \cup OtherNames,
          description \in {EmptyDescription, ManualDescription} :
            CreateCollection(kb_name, description, "none")
    \/ \E kb_name \in RouterLikeNames \cup OtherNames, auto_create \in BOOLEAN :
            UploadDocument(kb_name, TextFile, "f.txt", auto_create, EmptyDict,
                           LLMAnswersJson, "none")
    \/ \E kb_name \in RouterLikeNames \cup OtherNames : DeleteCollection(kb_name, "none")
    \/ \E kb_name \in RouterLikeNames : GetCollectionInfo(kb_name)
    \/ ListCollections("none")

SpecRouterName == Init /\ [][NextRouterName]_vars

\* The operations that write the RouterEntry, with each failure that write
\* can meet, on two KB names
NextRouterWrite ==
    \/ \E kb_name \in {<<"a", "-", "b">>, <<"c">>},
          description \in {EmptyDescription, ManualDescription},
          fault \in {"none", "embed_query", "upsert_router"} :
            CreateCollection(kb_name, description, fault)
    \/ \E kb_name \in {<<"a", "-", "b">>, <<"c">>},
          file \in {TextFile, BlankPdf}, auto_create \in BOOLEAN,
          fault \in {"none", "embed_query", "upsert_router",
                     "upsert_router_at_creation", "upsert_router_after_store"} :
            UploadDocument(kb_name, file, "f.txt", auto_create, EmptyDict,
                           LLMAnswersJson, fault)
    \/ \E kb_name \in {<<"a", "-", "b">>, <<"c">>} : DeleteCollection(kb_name, "none")

SpecRouterWrite == Init /\ [][NextRouterWrite]_vars

\* The two metadata extractors on every answer of the LLM, and the ingestion
\* that uses the first one
NextExtract ==
    \/ \E llm \in ExtractorResponses : ExtractMetadataFromText(llm)
    \/ \E llm \in ExtractorResponses : PipelineExtractMetadataFromText(llm)
    \/ \E llm \in ExtractorResponses \cup {LLMAnswersOverriding},
          metadata \in CallerMetadata :
            UploadDocument(<<"a", "-", "b">>, TextFile, "f.txt", TRUE, metadata,
                           llm, "none")
    \/ \E file \in {BlankPdf, BlankFirstPagePdf}, auto_create \in BOOLEAN,
          fault \in {"none", "add_documents"} :
            UploadDocument(<<"a", "-", "b">>, file, "f.txt", auto_create, EmptyDict,
                           LLMAnswersJson, fault)
    \/ \E file \in Files \cup {BlankFirstPagePdf, UndecodableText},
          llm \in {LLMAnswersJson, LLMRaises}, fault \in {"none", "add_documents"} :
            IndexDocument(file, "f.txt", llm, fault)
    \/ DeleteCollection(<<"a", "-", "b">>, "none")

SpecExtract == InitRouter /\ [][NextExtract]_vars

(***************************************************************************)
(* The re-ranker of the single-collection pipeline (app/rag_pipeline.py).  *)
(* scores is what self.model.score(pairs) returns, one score per document, *)
(* in hundred-thousandths.                                                 *)
(***************************************************************************)
\* docs_with_scores.sort(key=lambda x: x[1], reverse=True): the positions of
\* the documents in the sorted list.  The sort is stable, so of two documents
\* with one score the earlier stays first.
SortedByScore(scores) ==
    LET before(j, i) == scores[j] > scores[i] \/ (scores[j] = scores[i] /\ j < i)
        rank(i) == Cardinality({j \in DOMAIN scores : before(j, i)}) + 1
    IN  [k \in DOMAIN scores |-> CHOOSE i \in DOMAIN scores : rank(i) = k]

\* A mutation of compress_documents: the documents are not sorted
CompressDocumentsUnsorted(documents, scores, top_n) ==
    [k \in 1..Min(top_n, Len(documents)) |->
        [page_content |-> documents[k].page_content,
         metadata |-> Merge(documents[k].metadata,
                            [relevance_score |-> scores[k]])]]

\* ScoredCrossEncoderReranker.compress_documents with self.top_n = top_n >= 0
compress_documents(documents, scores, top_n) ==
    LET order == SortedByScore(scores)
    IN  [k \in 1..Min(top_n, Len(documents)) |->
            [page_content |-> documents[order[k]].page_content,
             metadata |-> Merge(documents[order[k]].metadata,
                                [relevance_score |-> scores[order[k]]])]]

\* the first n of the candidates the retriever can hand to the re-ranker: each
\* has its own text, the second carries the score of an earlier re-ranking
RerankCandidates ==
    <<[page_content |-> "d1", metadata |-> [file_name |-> "f.txt"]],
      [page_content |-> "d2", metadata |-> [file_name |-> "f.txt",
                                            relevance_score |-> 12345]],
      [page_content |-> "d3", metadata |-> [file_name |-> "g.txt"]],
      [page_content |-> "d4", metadata |-> [file_name |-> "g.txt"]]>>

RerankScores == {20000, 50000, 90000}

CompressDocuments(documents, scores, top_n) ==
    /\ UNCHANGED server
    /\ last' = [op |-> "compress_documents", documents |-> documents,
                scores |-> scores, top_n |-> top_n,
                result |-> compress_documents(documents, scores, top_n)]
    /\ UNCHANGED <<qdrant, chat_histories>>

\* The re-ranker on every list of up to MaxSources candidates, every scoring
\* of them and every limit up to one more than the candidates
NextRerank ==
    \E n \in 0..MaxSources :
    \E scores \in [1..n -> RerankScores], top_n \in 0..(MaxSources + 1) :
        CompressDocuments(SubSeq(RerankCandidates, 1, n), scores, top_n)

SpecRerank == Init /\ [][NextRerank]_vars

(***************************************************************************)
(* The single-collection servers (app/main.py, mcp_server.py) keep one     *)
(* Python list of messages per session.  A list is an object: lists maps   *)
(* the id of every live list to its messages, and session_histories maps a *)
(* session id to the id of the list stored under it.                       *)
(***************************************************************************)
HumanMessage(content) == [type |-> "human", content |-> content]
AIMessage(content) == [type |-> "ai", content |-> content]

\* the id of a list object created now
NewList(ls) == CHOOSE i \in 1..(Cardinality(DOMAIN ls) + 1) : i \notin DOMAIN ls

\* garbage collection: the lists that the dict or a call in flight refers to
Collect(ls, sh, cs) ==
    LET held == {sh[x] : x \in DOMAIN sh}
                \cup {cs[p].session_history :
                        p \in {x \in DOMAIN cs : "session_history" \in DOMAIN cs[x]}}
    IN  [i \in DOMAIN ls \cap held |-> ls[i]]

\* session_history = chat_histories.get(session_id, []): the stored list
\* itself, or a new empty list that the dict does not hold
SessionHistoryGet(sh, ls, session_id) ==
    IF session_id \in DOMAIN sh
    THEN [lists |-> ls, session_history |-> sh[session_id]]
    ELSE [lists |-> [i \in DOMAIN ls \cup {NewList(ls)} |->
                        IF i \in DOMAIN ls THEN ls[i] ELSE <<>>],
          session_history |-> NewList(ls)]

\* session_history.append(HumanMessage), session_history.append(AIMessage),
\* chat_histories[session_id] = session_history
SessionHistoryStore(sh, ls, session_id, session_history, question, answer) ==
    [session_histories |-> [x \in DOMAIN sh \cup {session_id} |->
                                IF x = session_id THEN session_history ELSE sh[x]],
     lists |-> [ls EXCEPT ![session_history] =
                    @ \o <<HumanMessage(question), AIMessage(answer)>>]]

\* the messages stored for a session; none when the dict has no such key
StoredMessages(sh, ls, session_id) ==
    IF session_id \in DOMAIN sh THEN ls[sh[session_id]] ELSE <<>>

(***************************************************************************)
(* Overlapping chat calls.  A call is suspended only while it waits for    *)
(* the vector store or the LLM; what it does between two waits is one      *)
(* step.  No step of this part removes a session entry of the engine, so   *)
(* the memory object a call obtained stays the one stored in               *)
(* chat_histories and is addressed through it.                             *)
(***************************************************************************)
RaceKb == <<"a", "-", "b">>
RaceSessions == {"s1", "s2"}

\* each caller asks its own question
CallerQuestion(p) == IF p = "p1" THEN "q1" ELSE "q2"

\* chat_with_collection is called: it asks the vector store whether the
\* collection exists (collection_exists)
ChatStart(p, session_id, fault) ==
    /\ calls[p].pc = "idle"
    /\ calls' = [calls EXCEPT ![p] =
                    [pc |-> "collection_exists", entry |-> "chat_with_collection",
                     session_id |-> session_id, question |-> CallerQuestion(p),
                     fault |-> fault]]
    /\ UNCHANGED <<qdrant, chat_histories, last, session_histories, lists>>

\* the vector store answered: the call gets or creates the memory of the
\* session, the chain loads it and asks the retriever
ChatEnter(p) ==
    /\ calls[p].pc = "collection_exists"
    /\ IF collection_exists(qdrant, _get_collection_name(RaceKb))
       THEN /\ chat_histories' = _get_or_create_memory(chat_histories,
                                    _get_collection_name(RaceKb), calls[p].session_id)
            /\ calls' = [calls EXCEPT ![p].pc = "retrieve"]
       ELSE /\ chat_histories' = chat_histories
            /\ calls' = [calls EXCEPT ![p] =
                            [pc |-> "done", entry |-> @.entry,
                             session_id |-> @.session_id, question |-> @.question,
                             fault |-> @.fault, success |-> FALSE]]
    /\ UNCHANGED <<qdrant, last, session_histories, lists>>

\* chat_endpoint is called: it takes the history of the session and starts
\* the chain, which asks the retriever
ChatEndpointRead(p, session_id, fault) ==
    /\ calls[p].pc = "idle"
    /\ \E got \in {SessionHistoryGet(session_histories, lists, session_id)} :
        /\ lists' = got.lists
        /\ calls' = [calls EXCEPT ![p] =
                        [pc |-> "retrieve", entry |-> "chat_endpoint",
                         session_id |-> session_id, question |-> CallerQuestion(p),
                         fault |-> fault, session_history |-> got.session_history]]
    /\ UNCHANGED <<qdrant, chat_histories, last, session_histories>>

\* the vector store answered the retriever: the chain asks the LLM
Retrieved(p) ==
    /\ calls[p].pc = "retrieve"
    /\ calls' = [calls EXCEPT ![p].pc = "generate"]
    /\ UNCHANGED <<qdrant, chat_histories, last, session_histories, lists>>

\* the LLM answered or raised: the chain saves the turn to the memory and
\* chat_with_collection returns
ChatReturn(p) ==
    /\ calls[p].pc = "generate"
    /\ calls[p].entry = "chat_with_collection"
    /\ \E ran \in {Chain(chat_histories, _get_collection_name(RaceKb),
                         calls[p].session_id, calls[p].question, "ans",
                         calls[p].fault)} :
        /\ chat_histories' = ran.h
        /\ calls' = [calls EXCEPT ![p] =
                        [pc |-> "done", entry |-> @.entry,
                         session_id |-> @.session_id, question |-> @.question,
                         fault |-> @.fault, success |-> ran.ok]]
    /\ UNCHANGED <<qdrant, last, session_histories, lists>>

\* the LLM answered or raised: chat_endpoint appends the two messages to its
\* list and stores the list under the session id, or answers HTTP 500
ChatEndpointReturn(p) ==
    /\ calls[p].pc = "generate"
    /\ calls[p].entry = "chat_endpoint"
    /\ \E done \in {[calls EXCEPT ![p] =
                        [pc |-> "done", entry |-> @.entry,
                         session_id |-> @.session_id, question |-> @.question,
                         fault |-> @.fault, success |-> @.fault = "none"]]} :
       \E stored \in {IF calls[p].fault = "none"
                      THEN SessionHistoryStore(session_histories, lists,
                                calls[p].session_id, calls[p].session_history,
                                calls[p].question, "ans")
                      ELSE [session_histories |-> session_histories,
                            lists |-> lists]} :
        /\ calls' = done
        /\ session_histories' = stored.session_histories
        /\ lists' = Collect(stored.lists, stored.session_histories, done)
    /\ UNCHANGED <<qdrant, chat_histories, last>>

\* one knowledge base, and session s1 either new or holding one earlier turn,
\* in the engine and in the single-collection server
InitRace ==
    /\ qdrant = create_collection([c \in {ROUTER_COLLECTION_NAME} |-> <<>>],
                                  RaceKb, ManualDescription, "none").q
    /\ chat_histories \in
            {<<>>,
             Chain(_get_or_create_memory(<<>>, _get_collection_name(RaceKb), "s1"),
                   _get_collection_name(RaceKb), "s1", "q0", "ans", "none").h}
    /\ \E stored \in {[session_histories |-> <<>>, lists |-> <<>>],
                      SessionHistoryStore(<<>>, SessionHistoryGet(<<>>, <<>>, "s1").lists,
                                          "s1", 1, "q0", "ans")} :
        /\ session_histories = stored.session_histories
        /\ lists = stored.lists
    /\ calls = [p \in Callers |-> Idle]
    /\ last = [op |-> "init"]

\* Two callers, each with one chat call, through either entry point
NextRace ==
    \/ \E p \in Callers, session_id \in RaceSessions, fault \in {"none", "chain"} :
            ChatStart(p, session_id, fault)
    \/ \E p \in Callers : ChatEnter(p)
    \/ \E p \in Callers, session_id \in RaceSessions, fault \in {"none", "chain"} :
            ChatEndpointRead(p, session_id, fault)
    \/ \E p \in Callers : Retrieved(p)
    \/ \E p \in Callers : ChatReturn(p)
    \/ \E p \in Callers : ChatEndpointReturn(p)

SpecRace == InitRace /\ [][NextRace]_vars

(***************************************************************************)
(* The tools of the single-collection MCP server (mcp_server.py).  A tool  *)
(* has no suspension point, so a call is one step.  initialized tells      *)
(* whether query_engine is set; response is what the chain returns, fault  *)
(* "invoke" that it raised.  The formatting of the sources is left to the  *)
(* score operators above.                                                  *)
(***************************************************************************)
\* what rag_chain.invoke returns: a dict with an answer, or without one
ChainResponses == {[answer |-> "ans"], [context |-> <<>>]}

\* A mutation of tool_chat_with_documents: the question is appended before
\* the chain is invoked
ToolChatAppendingFirst(sh, ls, initialized, session_id, question, response, fault) ==
    LET got == SessionHistoryGet(sh, ls, session_id)
        asked == [got.lists EXCEPT ![got.session_history] =
                        Append(@, HumanMessage(question))]
        stored == [session_histories |->
                        [x \in DOMAIN sh \cup {session_id} |->
                            IF x = session_id THEN got.session_history ELSE sh[x]],
                   lists |-> [asked EXCEPT ![got.session_history] =
                                Append(@, AIMessage(Get(response, "answer", "")))]]
    IN  IF ~initialized
        THEN [session_histories |-> sh, lists |-> ls, raised |-> "none",
              result |-> [error |-> "Query engine not initialized",
                          answer |-> None, sources |-> <<>>]]
        ELSE IF fault = "invoke"
        THEN [session_histories |-> sh, lists |-> asked, raised |-> fault,
              result |-> [error |-> "raised"]]
        ELSE [session_histories |-> stored.session_histories,
              lists |-> stored.lists,
              raised |-> "none",
              result |-> [answer |-> Get(response, "answer", "not found"),
                          session_id |-> session_id,
                          conversation_length |-> Len(stored.lists[got.session_history])]]

\* an exception leaves the tool and is answered by handle_tools_call
tool_chat_with_documents(sh, ls, initialized, session_id, question, response, fault) ==
    LET got == SessionHistoryGet(sh, ls, session_id)
        stored == SessionHistoryStore(sh, got.lists, session_id, got.session_history,
                                      question, Get(response, "answer", ""))
    IN  IF ~initialized
        THEN [session_histories |-> sh, lists |-> ls, raised |-> "none",
              result |-> [error |-> "Query engine not initialized",
                          answer |-> None, sources |-> <<>>]]
        ELSE IF fault = "invoke"
        THEN [session_histories |-> sh, lists |-> got.lists, raised |-> fault,
              result |-> [error |-> "raised"]]
        ELSE [session_histories |-> stored.session_histories,
              lists |-> stored.lists,
              raised |-> "none",
              result |-> [answer |-> Get(response, "answer", "not found"),
                          session_id |-> session_id,
                          conversation_length |-> Len(stored.lists[got.session_history])]]

tool_clear_chat_history(sh, session_id) ==
    IF session_id \in DOMAIN sh
    THEN [session_histories |-> [x \in DOMAIN sh \ {session_id} |-> sh[x]],
          result |-> [success |-> TRUE, message |-> "cleared"]]
    ELSE [session_histories |-> sh,
          result |-> [success |-> FALSE, message |-> "No chat history found"]]

\* a whole call of tool_query_documents: the guard on query_engine, the
\* invocation of the chain, and the answer with its sources
QueryDocumentsOutcome(initialized, question, response, fault) ==
    IF ~initialized
    THEN [error |-> "Query engine not initialized", answer |-> None, sources |-> <<>>]
    ELSE IF fault = "invoke"
    THEN [error |-> "raised"]
    ELSE [answer |-> Get(response, "answer", "not found"),
          sources |-> tool_query_documents(Get(response, "context", <<>>)),
          source_count |-> Len(Get(response, "context", <<>>))]

\* the messages of all stored histories together
TotalMessages(sh, ls) ==
    Cardinality(UNION {{x} \X (1..Len(ls[sh[x]])) : x \in DOMAIN sh})

ToolChatWithDocuments(initialized, session_id, question, response, fault) ==
    \E r \in {tool_chat_with_documents(session_histories, lists, initialized,
                                        session_id, question, response, fault)} :
        /\ initialized \/ fault = "none"
        /\ TotalMessages(r.session_histories, r.lists) <= 2 * MaxTurns
        /\ session_histories' = r.session_histories
        /\ lists' = Collect(r.lists, r.session_histories, calls)
        /\ last' = [op |-> "chat_with_documents", initialized |-> initialized,
                    session_id |-> session_id, question |-> question,
                    response |-> response, fault |-> fault, result |-> r.result]
        /\ UNCHANGED <<qdrant, chat_histories, calls>>

ToolClearChatHistory(session_id) ==
    \E r \in {tool_clear_chat_history(session_histories, session_id)} :
        /\ session_histories' = r.session_histories
        /\ lists' = Collect(lists, r.session_histories, calls)
        /\ last' = [op |-> "clear_chat_history", session_id |-> session_id,
                    result |-> r.result]
        /\ UNCHANGED <<qdrant, chat_histories, calls>>

ToolQueryDocumentsCall(initialized, question, response, fault) ==
    /\ initialized \/ fault = "none"
    /\ last' = [op |-> "query_documents", initialized |-> initialized,
                question |-> question, fault |-> fault,
                result |-> QueryDocumentsOutcome(initialized, question, response, fault)]
    /\ UNCHANGED <<qdrant, chat_histories, calls, session_histories, lists>>

NextTools ==
    \/ \E initialized \in BOOLEAN, session_id \in Sessions, question \in Queries,
          response \in ChainResponses, fault \in {"none", "invoke"} :
            ToolChatWithDocuments(initialized, session_id, question, response, fault)
    \/ \E session_id \in Sessions : ToolClearChatHistory(session_id)
    \/ \E initialized \in BOOLEAN, question \in Queries,
          response \in ChainResponses, fault \in {"none", "invoke"} :
            ToolQueryDocumentsCall(initialized, question, response, fault)

SpecTools == Init /\ [][NextTools]_vars

(***************************************************************************)
(* Properties                                                              *)
(***************************************************************************)
KbOps == {"create_collection", "upload_document", "chat_with_collection",
          "get_collection_info", "clear_chat_history", "delete_collection"}

\* the name lowercased with every space and hyphen replaced by an underscore
Normalized(name) ==
    [i \in 1..Len(name) |->
        IF name[i] \in {" ", "-"} THEN "_" ELSE LowerChar(name[i])]

KbCollectionOf(name) == <<"k", "b", "_">> \o Normalized(name)

\* the turns of a session; a session that has no memory has no turns
Turns(h, c, s) == IF c \in DOMAIN h /\ s \in DOMAIN h[c] THEN h[c][s] ELSE <<>>

HasSession(h, c, s) == c \in DOMAIN h /\ s \in DOMAIN h[c]

\* C1: two KB names that are equal once lowercased and with spaces and hyphens
\* turned into underscores resolve to one collection, and each of the six
\* operations that take a KB name acts on the collection "kb_" + that
\* normalized name: the one it creates, fills, inspects, deletes, or whose
\* sessions it reads and clears.
C1_SameCollection ==
    /\ \A n1, n2 \in InfoNames :
            Normalized(n1) = Normalized(n2)
                => _get_collection_name(n1) = _get_collection_name(n2)
    /\ \A c \in KBCollections(qdrant) : \A i \in SentinelIds(qdrant, c) :
            c = KbCollectionOf(qdrant[c][i].kb_name)
    /\ last.op \in KbOps =>
        LET c == KbCollectionOf(last.kb_name)
        IN  /\ last.collection_name = c
            /\ last.op = "create_collection" /\ last.result.success
                    => c \in DOMAIN qdrant
            /\ last.op = "create_collection" /\ ~last.result.success
                    => last.result.collection_name = c /\ c \in DOMAIN qdrant
            /\ last.op = "upload_document" /\ last.result.success
                    => c \in DOMAIN qdrant /\ last.result.collection_name = c
            /\ last.op = "upload_document" /\ ~last.result.success
                    => c \notin DOMAIN qdrant
            /\ last.op = "get_collection_info"
                    => IF c \in DOMAIN qdrant
                       THEN last.result # None /\ last.result.collection_name = c
                       ELSE last.result = None
            /\ last.op = "delete_collection"
                    => c \notin DOMAIN qdrant /\ c \notin DOMAIN chat_histories
            /\ last.op = "chat_with_collection"
                    => last.result.success = (c \in DOMAIN qdrant)
            /\ last.op = "chat_with_collection" /\ last.result.success
                    => /\ HasSession(chat_histories, c, last.session_id)
                       /\ Turns(chat_histories, c, last.session_id) # <<>>
            /\ last.op = "clear_chat_history"
                    => ~HasSession(chat_histories, c, last.session_id)

\* a chat under one spelling with the collection created under the other
C1_Witness ==
    /\ last.op = "chat_with_collection"
    /\ last.result.success
    /\ \E i \in SentinelIds(qdrant, last.collection_name) :
            qdrant[last.collection_name][i].kb_name # last.kb_name
    /\ Len(Turns(chat_histories, last.collection_name, "s1")) = 2

\* the memory of a session: no element when the session does not exist
SessionOf(h, c, s) == IF HasSession(h, c, s) THEN <<h[c][s]>> ELSE <<>>

IsPrefix(a, b) == Len(a) <= Len(b) /\ SubSeq(b, 1, Len(a)) = a

\* the operation recorded in l is a chat or a clear on (c, s), or deletes c
Touches(l, c, s) ==
    \/ /\ l.op \in {"chat_with_collection", "clear_chat_history"}
       /\ KbCollectionOf(l.kb_name) = c
       /\ l.session_id = s
    \/ /\ l.op = "delete_collection"
       /\ KbCollectionOf(l.kb_name) = c
    \/ /\ l.op = "chat_auto_route"
       /\ l.routing_result # None
       /\ KbCollectionOf(l.routing_result.kb_name) = c
       /\ l.session_id = s

\* C2: the memory of a session (KB, session_id) changes only in a step that is
\* a chat on that pair (directly or routed to that KB), a clear of that pair
\* or a delete of that KB; every other operation, and the passing of time,
\* leaves it as it is.
C2_SessionFrame ==
    [][\A c \in DOMAIN chat_histories \cup DOMAIN chat_histories' :
        \A s \in Sessions :
            SessionOf(chat_histories', c, s) # SessionOf(chat_histories, c, s)
                => Touches(last', c, s)]_vars

\* a chat on one session while another session of the same KB holds a turn
C2_Witness ==
    /\ last.op = "chat_with_collection"
    /\ last.result.success
    /\ last.session_id = "s1"
    /\ Len(Turns(chat_histories, last.collection_name, "s2")) = 1
    /\ Len(Turns(chat_histories, last.collection_name, "s1")) = 1

\* C3: a chat_with_collection on an existing KB whose retrieval or LLM call
\* raises returns success = false with a message, and the session's turns are
\* what they were before the call.
C3_FailedChatKeepsTurns ==
    [][(last'.op = "chat_with_collection" /\ last'.fault = "chain")
        => /\ ~last'.result.success
           /\ "message" \in DOMAIN last'.result
           /\ \A c \in DOMAIN chat_histories \cup DOMAIN chat_histories' :
                \A s \in Sessions :
                    Turns(chat_histories', c, s) = Turns(chat_histories, c, s)]_vars

\* a failed chat on a session that holds a turn
C3_Witness ==
    /\ last.op = "chat_with_collection"
    /\ last.fault = "chain"
    /\ Len(Turns(chat_histories, last.collection_name, last.session_id)) >= 1

\* C4: a successful chat_with_collection on (KB, session_id) appends the one
\* turn (query, answer) at the end of that session's turns, and in every step
\* a session that exists before and after keeps its earlier turns as a prefix.
C4_AppendOnly ==
    [][/\ (last'.op = "chat_with_collection" /\ last'.result.success)
            => Turns(chat_histories', last'.collection_name, last'.session_id)
                = Append(Turns(chat_histories, last'.collection_name, last'.session_id),
                         <<last'.query, last'.result.answer>>)
       /\ \A c \in DOMAIN chat_histories : \A s \in Sessions :
            (HasSession(chat_histories, c, s) /\ HasSession(chat_histories', c, s))
                => IsPrefix(chat_histories[c][s], chat_histories'[c][s])]_vars

\* a successful chat on a session that already held a turn with another query
C4_Witness ==
    /\ last.op = "chat_with_collection"
    /\ last.result.success
    /\ Len(Turns(chat_histories, last.collection_name, last.session_id)) = 2
    /\ chat_histories[last.collection_name][last.session_id][1][1] # last.query

\* C5: the router index holds at most one RouterEntry per KB collection.
C5_OneRouterEntryPerKb ==
    \A kb_name \in KBNames :
        Cardinality(RouterEntries(qdrant, KbCollectionOf(kb_name))) <= 1

\* an upload under one spelling to a KB registered under the other spelling
C5_Witness ==
    /\ last.op = "upload_document"
    /\ last.result.success
    /\ last.existed
    /\ \E i \in SentinelIds(qdrant, last.collection_name) :
            qdrant[last.collection_name][i].kb_name # last.kb_name
    /\ \E i \in RouterEntries(qdrant, last.collection_name) :
            qdrant[ROUTER_COLLECTION_NAME][i].kb_name = last.kb_name

\* the points of the router index (none when the index does not exist)
RouterPoints(q) ==
    IF collection_exists(q, ROUTER_COLLECTION_NAME) THEN q[ROUTER_COLLECTION_NAME] ELSE <<>>

\* the sentinel points of collection c with their payloads
Sentinels(q, c) ==
    IF collection_exists(q, c) THEN [i \in SentinelIds(q, c) |-> q[c][i]] ELSE <<>>

\* the step is a successful upload_document to a KB that existed
ReUploaded ==
    /\ last'.op = "upload_document"
    /\ last'.existed
    /\ last'.result.success

\* the write of the RouterEntry did not go through in this step
RouterWriteFailed ==
    \/ last'.fault \in {"embed_query", "upsert_router"}
    \/ ~collection_exists(qdrant, ROUTER_COLLECTION_NAME)

\* C6 as stated: a successful upload to an existing KB adds no sentinel and
\* no second RouterEntry, and afterwards the KB's one RouterEntry carries the
\* description this upload generated.
C6_Original ==
    [][ReUploaded
        => /\ Sentinels(qdrant', last'.collection_name)
                = Sentinels(qdrant, last'.collection_name)
           /\ Cardinality(RouterEntries(qdrant', last'.collection_name)) = 1
           /\ \A i \in RouterEntries(qdrant', last'.collection_name) :
                qdrant'[ROUTER_COLLECTION_NAME][i].description
                    = last'.result.collection_description]_vars

\* C6 (amended): a successful upload to an existing KB adds no sentinel and
\* leaves at most one RouterEntry for the KB; that entry carries the
\* description this upload generated unless embedding the description or
\* writing the entry failed (or the router index does not exist), and then the
\* router index is what it was before the upload.
C6_ReUploadRefreshesRouter ==
    [][ReUploaded
        => /\ Sentinels(qdrant', last'.collection_name)
                = Sentinels(qdrant, last'.collection_name)
           /\ Cardinality(RouterEntries(qdrant', last'.collection_name)) <= 1
           /\ IF RouterWriteFailed
              THEN RouterPoints(qdrant') = RouterPoints(qdrant)
              ELSE /\ Cardinality(RouterEntries(qdrant', last'.collection_name)) = 1
                   /\ \A i \in RouterEntries(qdrant', last'.collection_name) :
                        /\ qdrant'[ROUTER_COLLECTION_NAME][i].description
                                = last'.result.collection_description
                        /\ qdrant'[ROUTER_COLLECTION_NAME][i].kb_name = last'.kb_name]_vars

\* a successful upload to a KB that was registered with another description
C6_Witness ==
    /\ last.op = "upload_document"
    /\ last.existed
    /\ last.result.success
    /\ last.fault = "none"
    /\ \E i \in SentinelIds(qdrant, last.collection_name) :
        /\ qdrant[last.collection_name][i].description = ManualDescription
        /\ \E j \in RouterEntries(qdrant, last.collection_name) :
            qdrant[ROUTER_COLLECTION_NAME][j].description
                # qdrant[last.collection_name][i].description

\* the step is an upload_document to a missing KB with auto_create = false
RefusedUpload ==
    /\ last'.op = "upload_document"
    /\ ~last'.existed
    /\ ~last'.auto_create

\* C7 as stated: an upload to a missing KB with auto_create = false returns
\* success = false with the AI metadata gathered so far and creates nothing.
C7_Original ==
    [][RefusedUpload
        => /\ ~last'.result.success
           /\ "ai_metadata" \in DOMAIN last'.result
           /\ qdrant' = qdrant]_vars

\* C7 (amended): an upload of a document with at least one extracted page to a
\* missing KB with auto_create = false returns success = false with the AI
\* metadata gathered so far; with no extracted page the result has no AI
\* metadata; in both cases no collection, sentinel, chunk or RouterEntry is
\* created.
C7_RefusedUploadCreatesNothing ==
    [][RefusedUpload
        => /\ ~last'.result.success
           /\ ("ai_metadata" \in DOMAIN last'.result) = (last'.pages >= 1)
           /\ last'.pages >= 1
                => \/ last'.result.ai_metadata = EmptyDict
                   \/ RequiredFields \subseteq DOMAIN last'.result.ai_metadata
           /\ qdrant' = qdrant]_vars

\* a refused upload that returns the metadata the LLM extracted
C7_Witness ==
    /\ last.op = "upload_document"
    /\ ~last.existed
    /\ ~last.auto_create
    /\ "ai_metadata" \in DOMAIN last.result
    /\ last.result.ai_metadata # EmptyDict
    /\ KBCollections(qdrant) # {}

\* the step is an upload_document of a document with at least one extracted
\* page to a missing KB with auto_create = true
AutoCreatingUpload ==
    /\ last'.op = "upload_document"
    /\ ~last'.existed
    /\ last'.auto_create
    /\ last'.pages >= 1

\* the step left every KB collection other than c, and every RouterEntry of
\* another collection, as it was
OthersUnchanged(c) ==
    /\ KBCollections(qdrant') \ {c} = KBCollections(qdrant) \ {c}
    /\ \A d \in KBCollections(qdrant) \ {c} : qdrant'[d] = qdrant[d]
    /\ \A i \in DOMAIN RouterPoints(qdrant) :
            RouterPoints(qdrant)[i].collection_name # c
                => /\ i \in DOMAIN RouterPoints(qdrant')
                   /\ RouterPoints(qdrant')[i] = RouterPoints(qdrant)[i]
    /\ \A i \in DOMAIN RouterPoints(qdrant') :
            RouterPoints(qdrant')[i].collection_name # c
                => i \in DOMAIN RouterPoints(qdrant)

C9_CreateExistingChangesNothing ==
    [][(last'.op = "create_collection" /\ last'.existed)
        => /\ ~last'.result.success
           /\ "collection_name" \in DOMAIN last'.result
           /\ last'.result.collection_name = KbCollectionOf(last'.kb_name)
           /\ last'.result.collection_name \in DOMAIN qdrant
           /\ qdrant' = qdrant
           /\ chat_histories' = chat_histories]_vars

\* a refused create, under another spelling, of a KB that holds a chunk, a
\* RouterEntry and a session
C9_Witness ==
    /\ last.op = "create_collection"
    /\ last.existed
    /\ ChunkIds(qdrant, last.collection_name) # {}
    /\ \E i \in RouterEntries(qdrant, last.collection_name) :
            qdrant[ROUTER_COLLECTION_NAME][i].kb_name # last.kb_name
    /\ Turns(chat_histories, last.collection_name, "s1") # <<>>

\* C10: when the router search returns a best match, route_to_kb returns None
\* if its score is below 0.4 and (the match's KB name, the score) if the
\* score is 0.4 or more.
C10_Threshold ==
    (/\ last.op = "route_to_kb"
     /\ last.fault = "none"
     /\ RouteReaches(qdrant))
        => IF last.score < 40
           THEN last.result = None
           ELSE last.result = [kb_name |-> qdrant[ROUTER_COLLECTION_NAME][last.best].kb_name,
                               score |-> last.score]

\* a score of exactly 0.4 on the only candidate is routed
C10_Witness ==
    /\ last.op = "route_to_kb"
    /\ last.fault = "none"
    /\ RouteReaches(qdrant)
    /\ Cardinality(DOMAIN qdrant[ROUTER_COLLECTION_NAME]) = 1
    /\ last.score = 40
    /\ last.result # None

\* the router index exists and holds a point
RouterHasPoints ==
    /\ ROUTER_COLLECTION_NAME \in DOMAIN qdrant
    /\ DOMAIN qdrant[ROUTER_COLLECTION_NAME] # {}

\* C11: route_to_kb returns None whenever the router index does not exist or
\* holds no point, whatever the query, the embedding and the store do.
C11_NothingToRouteTo ==
    (last.op = "route_to_kb" /\ ~RouterHasPoints)
        => last.result = None

\* a route with a KB in the store and an empty router index
C11_Witness ==
    /\ last.op = "route_to_kb"
    /\ collection_exists(qdrant, ROUTER_COLLECTION_NAME)
    /\ DOMAIN qdrant[ROUTER_COLLECTION_NAME] = {}
    /\ KBCollections(qdrant) # {}
    /\ last.result = None

\* the operation recorded in l is a chat_auto_route whose routing gave None
UnroutedChat(l) == l.op = "chat_auto_route" /\ l.routing_result = None

\* the collections that the listed names resolve to
Listed(available_kbs) == {KbCollectionOf(n) : n \in available_kbs}

\* C12 as stated: when route_to_kb returns None, chat_auto_route returns
\* success = false with available_kbs naming every existing KB, and the chat
\* histories are what they were.
C12_Original ==
    [][UnroutedChat(last')
        => /\ ~last'.result.success
           /\ Listed(last'.result.available_kbs) = KBCollections(qdrant)
           /\ chat_histories' = chat_histories]_vars

\* C12: when route_to_kb returns None, chat_auto_route returns success = false
\* and leaves the chat histories as they were (no chat, no session created or
\* changed); its available_kbs names every existing KB when the listing of the
\* collections succeeds and is empty when that listing fails.
C12_UnroutedChatListsKbs ==
    [][UnroutedChat(last')
        => /\ ~last'.result.success
           /\ last'.fault # "get_collections"
                => Listed(last'.result.available_kbs) = KBCollections(qdrant)
           /\ last'.fault = "get_collections" => last'.result.available_kbs = {}
           /\ chat_histories' = chat_histories]_vars

\* an unrouted chat below the threshold while two KBs exist, one of them
\* with a session
C12_Witness ==
    /\ UnroutedChat(last)
    /\ last.fault = "none"
    /\ RouterHasPoints
    /\ Cardinality(KBCollections(qdrant)) = 2
    /\ Listed(last.result.available_kbs) = KBCollections(qdrant)
    /\ \E c \in KBCollections(qdrant) : HasSession(chat_histories, c, "s1")

\* the operation recorded in l is a chat_auto_route whose routing gave a KB
RoutedChat(l) == l.op = "chat_auto_route" /\ l.routing_result # None

RoutingFields == {"routed_to", "routing_confidence", "routing_method"}

\* the dict d without the given keys
Without(d, keys) == [k \in DOMAIN d \ keys |-> d[k]]

\* C13: when route_to_kb returns (kb, score), chat_auto_route does what
\* chat_with_collection(kb, query, session_id, top_k) does on the same state:
\* the same chat histories result, and the same dict is returned, extended with
\* routed_to = kb, routing_confidence = score and routing_method only when
\* it is a success; a failed delegated chat is returned as it is, with none of
\* the routing fields.
C13_RoutedChatDelegates ==
    [][RoutedChat(last')
        => \E retrieved \in Retrievals(qdrant,
                    _get_collection_name(last'.routing_result.kb_name), last'.top_k),
              answer \in Answers :
            LET chat == chat_with_collection(qdrant, chat_histories,
                            last'.routing_result.kb_name, last'.query,
                            last'.session_id, last'.top_k, retrieved, answer,
                            last'.fault)
            IN  /\ chat_histories' = chat.h
                /\ IF chat.result.success
                   THEN /\ Without(last'.result, RoutingFields) = chat.result
                        /\ RoutingFields \subseteq DOMAIN last'.result
                        /\ last'.result.routed_to = last'.routing_result.kb_name
                        /\ last'.result.routing_confidence = last'.routing_result.score
                        /\ last'.result.routing_method = "semantic_similarity"
                   ELSE /\ last'.result = chat.result
                        /\ RoutingFields \cap DOMAIN last'.result = {}]_vars

\* a routed chat that succeeded at the threshold score on a session that
\* already held a turn
C13_Witness ==
    /\ RoutedChat(last)
    /\ last.result.success
    /\ last.result.routing_confidence = ROUTER_SIMILARITY_THRESHOLD
    /\ Len(Turns(chat_histories, KbCollectionOf(last.result.routed_to), last.session_id)) = 2

\* the operation recorded in l is a chat_with_collection on a KB that store q
\* does not hold
MissingKbChat(l, q) ==
    l.op = "chat_with_collection" /\ ~collection_exists(q, l.collection_name)

\* C14 as stated: chat_with_collection on a KB that does not exist returns
\* success = false with available_kbs naming every existing KB, and no session
\* entry exists for that (KB, session_id) afterwards.
C14_Original ==
    [][MissingKbChat(last', qdrant)
        => /\ ~last'.result.success
           /\ Listed(last'.result.available_kbs) = KBCollections(qdrant)
           /\ ~HasSession(chat_histories', last'.collection_name, last'.session_id)]_vars

\* C14: chat_with_collection on a KB that does not exist returns success =
\* false, creates no session entry for that (KB, session_id) and leaves every
\* chat history as it was; its available_kbs names every existing KB when the
\* listing of the collections succeeds and is empty when that listing fails.
C14_MissingKbChatListsKbs ==
    [][MissingKbChat(last', qdrant)
        => /\ ~last'.result.success
           /\ last'.fault # "get_collections"
                => Listed(last'.result.available_kbs) = KBCollections(qdrant)
           /\ last'.fault = "get_collections" => last'.result.available_kbs = {}
           /\ ~HasSession(chat_histories', last'.collection_name, last'.session_id)
           /\ chat_histories' = chat_histories]_vars

\* a chat on a KB that is not there (its router entry still is) while another
\* KB exists and is listed
C14_Witness ==
    /\ MissingKbChat(last, qdrant)
    /\ last.fault = "none"
    /\ RouterEntries(qdrant, last.collection_name) # {}
    /\ KBCollections(qdrant) # {}
    /\ Listed(last.result.available_kbs) = KBCollections(qdrant)
    /\ ~HasSession(chat_histories, last.collection_name, last.session_id)

\* f and g agree everywhere except that g has no key k
Dropped(f, g, k) ==
    /\ DOMAIN g = DOMAIN f \ {k}
    /\ \A x \in DOMAIN g : g[x] = f[x]

\* a successful chat on a session that had no memory leaves it with the one
\* new turn, and only KBs that exist have sessions
FreshSessionStartsEmpty ==
    /\ (/\ last'.op = "chat_with_collection"
        /\ last'.result.success
        /\ ~HasSession(chat_histories, last'.collection_name, last'.session_id))
        => Turns(chat_histories', last'.collection_name, last'.session_id)
                = <<<<last'.query, last'.result.answer>>>>
    /\ DOMAIN chat_histories' \subseteq DOMAIN qdrant'

\* C15 as stated: delete_collection of a missing KB returns success = false
\* and changes nothing; delete_collection of an existing KB drops its
\* collection and every session of that KB and nothing else, so that a later
\* chat on the re-created KB with an old session_id starts from no turns.
C15_Original ==
    [][/\ last'.op = "delete_collection"
            => IF ~last'.existed
               THEN /\ ~last'.result.success
                    /\ UNCHANGED <<qdrant, chat_histories>>
               ELSE /\ Dropped(qdrant, qdrant', last'.collection_name)
                    /\ Dropped(chat_histories, chat_histories', last'.collection_name)
       /\ FreshSessionStartsEmpty]_vars

\* C15: delete_collection of a missing KB returns success = false and changes
\* nothing; a delete_collection of an existing KB that succeeds drops its
\* collection and every session of that KB and no session of any other KB, so
\* that a later chat on the re-created KB with an old session_id starts from
\* no turns; when the store's delete raises, the result is success = false and
\* the collection and every session are kept.
C15_DeleteDiscardsSessions ==
    [][/\ last'.op = "delete_collection"
            => IF ~last'.existed \/ last'.fault = "delete_collection"
               THEN /\ ~last'.result.success
                    /\ UNCHANGED <<qdrant, chat_histories>>
               ELSE /\ last'.result.success
                    /\ Dropped(qdrant, qdrant', last'.collection_name)
                    /\ Dropped(chat_histories, chat_histories', last'.collection_name)
       /\ FreshSessionStartsEmpty]_vars

\* a delete that discarded two sessions of its KB while a session of the
\* other KB keeps its turn
C15_Witness ==
    /\ last.op = "delete_collection"
    /\ last.result.success
    /\ last.sessions = Sessions
    /\ last.collection_name \notin DOMAIN chat_histories
    /\ \E c \in DOMAIN chat_histories : Len(Turns(chat_histories, c, "s1")) = 1

\* C16: delete_collection leaves the router index as it is: every RouterEntry,
\* the one of the deleted KB included, is present afterwards with the payload
\* (and so the description) it had before.
C16_DeleteKeepsRouterEntry ==
    [][last'.op = "delete_collection"
        => /\ collection_exists(qdrant', ROUTER_COLLECTION_NAME)
                = collection_exists(qdrant, ROUTER_COLLECTION_NAME)
           /\ RouterPoints(qdrant') = RouterPoints(qdrant)]_vars

\* a delete that dropped a KB whose RouterEntry is still in the router index
C16_Witness ==
    /\ last.op = "delete_collection"
    /\ last.result.success
    /\ ~collection_exists(qdrant, last.collection_name)
    /\ \E i \in RouterEntries(qdrant, last.collection_name) :
            qdrant[ROUTER_COLLECTION_NAME][i].description = ManualDescription

\* C17: clear_chat_history(kb_name, session_id) returns success = true exactly
\* when the session entry of that pair exists, and then removes that entry and
\* no other; for a pair that has no entry (never created, or already cleared)
\* it returns success = false with a message and changes nothing.
C17_ClearExactlyExisting ==
    [][last'.op = "clear_chat_history"
        => LET c == last'.collection_name
               s == last'.session_id
           IN  /\ last'.result.success = HasSession(chat_histories, c, s)
               /\ "message" \in DOMAIN last'.result
               /\ last'.result.success
                    => /\ ~HasSession(chat_histories', c, s)
                       /\ \A c2 \in DOMAIN chat_histories \cup DOMAIN chat_histories' :
                            \A s2 \in Sessions :
                                <<c2, s2>> # <<c, s>>
                                    => SessionOf(chat_histories', c2, s2)
                                        = SessionOf(chat_histories, c2, s2)
               /\ ~last'.result.success => chat_histories' = chat_histories
               /\ qdrant' = qdrant]_vars

\* a clear that removed a session holding no other session's turn: the other
\* session of the KB still has its turn
C17_Witness ==
    /\ last.op = "clear_chat_history"
    /\ last.result.success
    /\ ~HasSession(chat_histories, last.collection_name, last.session_id)
    /\ \E s \in Sessions :
            Len(Turns(chat_histories, last.collection_name, s)) = 1

\* the ids of the points behind the sources of a chat result
SourceIds(result) == {source.metadata._id : source \in result.sources}

\* C18: the sentinel metadata point of a KB is never among the sources that
\* a successful chat_with_collection returns, whatever the query and top_k.
C18_SentinelNeverASource ==
    (last.op = "chat_with_collection" /\ last.result.success)
        => SourceIds(last.result) \cap SentinelIds(qdrant, last.collection_name) = {}

\* a chat with the default top_k on a KB that holds its sentinel and one
\* chunk: both points are returned as sources
C18_Witness ==
    /\ last.op = "chat_with_collection"
    /\ last.result.success
    /\ last.top_k = DefaultTopK
    /\ ChunkIds(qdrant, last.collection_name) # {}
    /\ SourceIds(last.result) = DOMAIN qdrant[last.collection_name]
    /\ SentinelIds(qdrant, last.collection_name) # {}

\* the descriptions that say nothing about a KB: the empty one, the generic
\* placeholder, and the placeholder an upload makes up for a file whose first
\* page has no text
PlaceholderDescriptions ==
    {EmptyDescription, PlaceholderDescription}
        \cup {AutoDescription(filename) : filename \in Filenames}

\* C19: no RouterEntry carries an empty or placeholder description, whether
\* the KB came from create_collection with such a description or from an
\* upload_document that auto-created it from a document whose first page has
\* no text.
C19_NoPlaceholderRouterEntry ==
    \A i \in DOMAIN RouterPoints(qdrant) :
        RouterPoints(qdrant)[i].description \notin PlaceholderDescriptions

\* an upload of a document with a blank first page auto-created the KB, and
\* the RouterEntry of that KB carries the placeholder made up for the file
C19_Witness ==
    /\ last.op = "upload_document"
    /\ last.auto_create
    /\ ~last.existed
    /\ last.result.success
    /\ \E i \in RouterEntries(qdrant, last.collection_name) :
            qdrant[ROUTER_COLLECTION_NAME][i].description = AutoDescription("f.txt")

\* the eight caller-facing operations
CallerFacing ==
    {"create_collection", "list_collections", "get_collection_info",
     "upload_document", "chat_with_collection", "chat_auto_route",
     "clear_chat_history", "delete_collection"}

\* a dict with a success flag, and with it a payload or a failure message
IsResult(result) ==
    /\ "success" \in DOMAIN result
    /\ result.success \in BOOLEAN
    /\ result.success => DOMAIN result # {"success"}
    /\ ~result.success => "message" \in DOMAIN result

ZeroPageUpload(l) == l.op = "upload_document" /\ l.pages = 0

\* C21: when text extraction yields zero pages (a MIME type that is not
\* supported, text that does not decode), upload_document returns success =
\* false, the LLM is not called, and the store (collections, sentinels,
\* chunks, router entries) and the chat histories are what they were, also
\* with auto_create set.
C21_ZeroPagesNoSideEffects ==
    [][ZeroPageUpload(last')
        => /\ ~last'.result.success
           /\ "message" \in DOMAIN last'.result
           /\ ~last'.llm_called
           /\ qdrant' = qdrant
           /\ chat_histories' = chat_histories]_vars

\* an upload of undecodable text with auto_create on a store without the KB
C21_Witness ==
    /\ ZeroPageUpload(last)
    /\ last.content_type = "text/plain"
    /\ last.auto_create
    /\ ~last.existed
    /\ ~collection_exists(qdrant, last.collection_name)
    /\ RouterEntries(qdrant, last.collection_name) = {}

Extractors == {"_extract_metadata_from_text", "rag_pipeline._extract_metadata_from_text"}

\* the answer of the LLM parsed to a JSON object
AnsweredObject(llm) == llm.kind = "json" /\ llm.is_dict

\* C22: the metadata extractor returns a record with the four fields
\* doc_type, category, status and title whatever the LLM does: its fallback
\* record, with a value for each field, when the LLM raises or answers
\* something that is not a JSON object, and the object with every missing field
\* set to "Unknown" otherwise; an upload of a document with text succeeds
\* and reports the four fields in every case.
C22_ExtractorAlwaysFourFields ==
    /\ last.op \in Extractors
        => /\ RequiredFields \subseteq DOMAIN last.result
           /\ ~AnsweredObject(last.llm)
                => last.result \in {DefaultMetadata, PipelineDefaultMetadata}
           /\ AnsweredObject(last.llm)
                => /\ \A k \in DOMAIN last.llm.value : last.result[k] = last.llm.value[k]
                   /\ \A k \in RequiredFields \ DOMAIN last.llm.value :
                        last.result[k] = "Unknown"
    /\ (last.op = "upload_document" /\ last.llm_called /\ last.fault = "none")
        => /\ last.result.success
           /\ RequiredFields \subseteq DOMAIN last.result.ai_metadata

\* the extractor of rag_pipeline on a JSON object that has only a title
C22_Witness ==
    /\ last.op = "rag_pipeline._extract_metadata_from_text"
    /\ AnsweredObject(last.llm)
    /\ DOMAIN last.llm.value = {"title"}
    /\ DOMAIN last.result = {"title"}

\* the ids of the points of collection c in store q
PointIds(q, c) == IF collection_exists(q, c) THEN DOMAIN q[c] ELSE {}

\* the chunks that the step stored
NewChunks(c) == {id \in PointIds(qdrant', c) \ PointIds(qdrant, c) :
                    ~IsSentinel(qdrant'[c][id])}

SystemFields == {"kb_name", "filename", "page_number"}

\* C23: the metadata stored with each chunk of an upload has the keys of the
\* three layers, and for every key the value of the highest layer that
\* defines it: the caller's metadata over the AI metadata over the system
\* fields (kb_name, filename, page_number).
C23_MetadataPriority ==
    [][(last'.op = "upload_document" /\ last'.result.success)
        => \A id \in NewChunks(last'.collection_name) :
            LET m == qdrant'[last'.collection_name][id].metadata
                ai == last'.result.ai_metadata
                caller == last'.metadata
            IN  /\ DOMAIN m = SystemFields \cup DOMAIN ai \cup DOMAIN caller
                /\ \A k \in DOMAIN m :
                    IF k \in DOMAIN caller THEN m[k] = caller[k]
                    ELSE IF k \in DOMAIN ai THEN m[k] = ai[k]
                    ELSE IF k = "kb_name" THEN m[k] = last'.kb_name
                    ELSE IF k = "filename" THEN m[k] = last'.result.filename
                    ELSE m[k] \in 1..last'.pages]_vars

\* an upload whose three layers all define filename and whose AI and caller
\* layers both define title: the chunk has the caller's values, the AI's
\* doc_type and the system's kb_name
C23_Witness ==
    /\ last.op = "upload_document"
    /\ last.result.success
    /\ "filename" \in DOMAIN last.result.ai_metadata
    /\ "filename" \in DOMAIN last.metadata
    /\ \E id \in ChunkIds(qdrant, last.collection_name) :
            /\ qdrant[last.collection_name][id].metadata.filename = "caller.pdf"
            /\ qdrant[last.collection_name][id].metadata.title = "Caller title"
            /\ qdrant[last.collection_name][id].metadata.doc_type = "Act"
            /\ qdrant[last.collection_name][id].metadata.kb_name = last.kb_name

\* C24: confidence bucketing has inclusive lower bounds: a score of at least
\* 0.7 is "high", one in [0.5, 0.7) "medium", one in [0.3, 0.5) "low" and any
\* lower score "very_low"; every score gets one of the four levels.
C24_ConfidenceBuckets ==
    last.op = "_get_confidence_level"
        => /\ last.result \in {"high", "medium", "low", "very_low"}
           /\ last.result = "high" <=> last.score * 10 >= 7 * One
           /\ last.result = "medium"
                <=> (last.score * 10 >= 5 * One /\ last.score * 10 < 7 * One)
           /\ last.result = "low"
                <=> (last.score * 10 >= 3 * One /\ last.score * 10 < 5 * One)
           /\ last.result = "very_low" <=> last.score * 10 < 3 * One

\* the score 0.5 exactly is bucketed "medium"
C24_Witness ==
    /\ last.op = "_get_confidence_level"
    /\ last.score * 2 = One
    /\ last.result = "medium"

QueryOps == {"query_endpoint", "tool_query_documents"}

\* the node at position i of the context has a relevance score of its own
Scored(l, i) == "relevance_score" \in DOMAIN l.context[i].metadata

\* an unscored source at 1-based place i gets 1.0 - 0.1 * (i - 1)
FallbackScores(l) ==
    \A i \in 1..Len(l.context) :
        ~Scored(l, i) => l.result[i].score * 10 = (10 - (i - 1)) * One

\* C25 as stated: a source without a relevance score gets 1.0 minus 0.1 times
\* its 0-based position, and a source with a relevance score has exactly that
\* score in the result, whatever its position.
C25_Original ==
    last.op \in QueryOps
        => /\ Len(last.result) = Len(last.context)
           /\ FallbackScores(last)
           /\ \A i \in 1..Len(last.context) :
                Scored(last, i)
                    => last.result[i].score = last.context[i].metadata.relevance_score

\* C25: a source without a relevance score gets 1.0 minus 0.1 times its
\* 0-based position (1.0, 0.9, 0.8 for three of them), and a source with a
\* relevance score gets that score rounded to four decimal places, whatever
\* its position.
C25_FallbackOrRoundedScore ==
    last.op \in QueryOps
        => /\ Len(last.result) = Len(last.context)
           /\ FallbackScores(last)
           /\ \A i \in 1..Len(last.context) :
                Scored(last, i)
                    => LET d == last.result[i].score
                                    - last.context[i].metadata.relevance_score
                       IN  /\ last.result[i].score % 10 = 0
                           /\ d * 2 < 10 /\ d * 2 > -10

\* three retrieved nodes: two without a score around one with 0.87654
C25_Witness ==
    /\ last.op = "query_endpoint"
    /\ Len(last.context) = 3
    /\ ~Scored(last, 1) /\ Scored(last, 2) /\ ~Scored(last, 3)
    /\ last.result[1].score = One
    /\ last.result[2].score = 87650
    /\ last.result[3].score * 10 = 8 * One

\* C26: every source of a successful chat_with_collection carries the
\* re-ranker's score for it (rerank_score), and the result names the search
\* method used (search_method).
C26_SourcesCarryRerankScore ==
    (last.op = "chat_with_collection" /\ last.result.success)
        => /\ "search_method" \in DOMAIN last.result
           /\ \A source \in last.result.sources : "rerank_score" \in DOMAIN source

\* a successful chat that returned a chunk as a source: the source has its
\* content and metadata and nothing else
C26_Witness ==
    /\ last.op = "chat_with_collection"
    /\ last.result.success
    /\ \E source \in last.result.sources :
            /\ source.metadata._id \in ChunkIds(qdrant, last.collection_name)
            /\ DOMAIN source = {"content", "metadata"}

\* C27: after any sequence of create_collection, upload_document and
\* delete_collection calls, calls in which a request to the vector store fails
\* part-way included, every existing KB collection holds exactly one sentinel
\* metadata point.
C27_OneSentinelPerKb ==
    \A c \in KBCollections(qdrant) : Cardinality(SentinelIds(qdrant, c)) = 1

\* a document was stored in a collection that has no sentinel: creating the
\* collection succeeded, the write of its sentinel failed, and a later upload
\* found the collection and added its chunk
C27_Witness ==
    /\ last.op = "upload_document"
    /\ last.existed
    /\ last.result.success
    /\ ChunkIds(qdrant, last.collection_name) # {}
    /\ SentinelIds(qdrant, last.collection_name) = {}

\* an upload with auto_create = true that created its KB and then failed to
\* store the chunks
CreatedThenFailedToStore ==
    /\ last'.op = "upload_document"
    /\ last'.auto_create
    /\ ~last'.existed
    /\ last'.pages > 0
    /\ last'.fault = "add_documents"

\* C28: an upload with auto_create = true that creates the KB and then fails
\* while storing chunks returns a not-success result that carries the AI
\* metadata, and leaves the store exactly as the creation left it: the KB
\* collection exists with its one sentinel point and no chunk, and the
\* RouterEntry that the creation wrote is in the router index.
C28_FailedStoreKeepsCreation ==
    [][CreatedThenFailedToStore
        => LET c == last'.collection_name
               description == ScrollMetadata(qdrant', c).description
               creation == create_collection(qdrant, last'.kb_name, description, "none")
           IN  /\ ~last'.result.success
               /\ "ai_metadata" \in DOMAIN last'.result
               /\ last'.llm_called
                    => RequiredFields \subseteq DOMAIN last'.result.ai_metadata
               /\ c \in KBCollections(qdrant')
               /\ Cardinality(SentinelIds(qdrant', c)) = 1
               /\ ChunkIds(qdrant', c) = {}
               /\ creation.result.success
               /\ qdrant' = creation.q
               /\ collection_exists(qdrant, ROUTER_COLLECTION_NAME)
                    => /\ Cardinality(RouterEntries(qdrant', c)) = 1
                       /\ \A i \in RouterEntries(qdrant', c) :
                            qdrant'[ROUTER_COLLECTION_NAME][i].description
                                = description]_vars

\* the state after such an upload of a document with text: the result carries
\* the extracted metadata, the collection holds its sentinel and nothing else,
\* and the KB is registered with the sentinel's description
C28_Witness ==
    /\ last.op = "upload_document"
    /\ last.auto_create /\ ~last.existed /\ last.fault = "add_documents"
    /\ ~last.result.success
    /\ last.llm_called
    /\ RequiredFields \subseteq DOMAIN last.result.ai_metadata
    /\ Cardinality(SentinelIds(qdrant, last.collection_name)) = 1
    /\ ChunkIds(qdrant, last.collection_name) = {}
    /\ \E i \in RouterEntries(qdrant, last.collection_name) :
            qdrant[ROUTER_COLLECTION_NAME][i].description
                = ScrollMetadata(qdrant, last.collection_name).description

\* the last call was an upload that got its text and then failed where it
\* commits: creating the collection, writing the sentinel, or storing chunks
FailedAtCommitPoint ==
    /\ last.op = "upload_document"
    /\ last.pages > 0
    /\ last.fault \in {"create_collection", "upsert_metadata", "add_documents"}
    /\ ~last.result.success

\* this step repeats that call, and no request fails
RepeatedUpload ==
    /\ FailedAtCommitPoint
    /\ last'.op = "upload_document"
    /\ last'.fault = "none"
    /\ last'.kb_name = last.kb_name
    /\ last'.content_type = last.content_type
    /\ last'.pages = last.pages
    /\ last'.metadata = last.metadata
    /\ last'.auto_create = last.auto_create

\* C29: when an upload fails at a commit point after text extraction and the
\* same call is repeated with every dependency working, the repeated call
\* succeeds and the KB then has its collection, exactly one sentinel point and
\* exactly one RouterEntry, which carries the generated description.
C29_RetryRecovers ==
    [][RepeatedUpload
        => LET c == last'.collection_name
           IN  /\ last'.result.success
               /\ c \in KBCollections(qdrant')
               /\ Cardinality(SentinelIds(qdrant', c)) = 1
               /\ Cardinality(RouterEntries(qdrant', c)) = 1
               /\ \A i \in RouterEntries(qdrant', c) :
                    qdrant'[ROUTER_COLLECTION_NAME][i].description
                        = last'.result.collection_description]_vars

\* a successful upload with auto_create = true that found its collection
\* already there, registered the KB, and left the collection without a
\* sentinel
C29_Witness ==
    /\ last.op = "upload_document"
    /\ last.auto_create /\ last.existed /\ last.fault = "none"
    /\ last.result.success
    /\ SentinelIds(qdrant, last.collection_name) = {}
    /\ \E i \in RouterEntries(qdrant, last.collection_name) :
            qdrant[ROUTER_COLLECTION_NAME][i].description
                = last.result.collection_description

\* the operation recorded in l is a chat_auto_route that was routed to a KB
\* whose collection is not in the store q
RoutedToDeleted(l, q) ==
    /\ RoutedChat(l)
    /\ ~collection_exists(q, RoutedCollection(l.routing_result))

\* C30 as stated: a chat_auto_route routed to a deleted KB returns success =
\* false with available_kbs naming every existing KB and none of the routing
\* fields, and creates neither a collection nor a session.
C30_Original ==
    [][RoutedToDeleted(last', qdrant)
        => /\ ~last'.result.success
           /\ Listed(last'.result.available_kbs) = KBCollections(qdrant)
           /\ DOMAIN last'.result \cap RoutingFields = {}
           /\ qdrant' = qdrant
           /\ chat_histories' = chat_histories]_vars

\* C30: after delete_collection a chat_auto_route can still be routed to the
\* deleted KB through its remaining RouterEntry; whenever that happens it
\* returns success = false with none of the routing fields, and creates neither
\* a collection nor a session (the store and the chat histories are what they
\* were); its available_kbs names every existing KB when the listing of the
\* collections succeeds and is empty when that listing fails.
C30_RoutedToDeletedKb ==
    [][RoutedToDeleted(last', qdrant)
        => /\ ~last'.result.success
           /\ last'.fault # "get_collections"
                => Listed(last'.result.available_kbs) = KBCollections(qdrant)
           /\ last'.fault = "get_collections" => last'.result.available_kbs = {}
           /\ DOMAIN last'.result \cap RoutingFields = {}
           /\ qdrant' = qdrant
           /\ ~HasSession(chat_histories', RoutedCollection(last'.routing_result),
                          last'.session_id)
           /\ chat_histories' = chat_histories]_vars

\* a chat routed through the RouterEntry of a KB whose collection is gone,
\* while another KB exists and is listed: no session, no collection for it
C30_Witness ==
    /\ RoutedToDeleted(last, qdrant)
    /\ last.fault = "none"
    /\ RouterEntries(qdrant, RoutedCollection(last.routing_result)) # {}
    /\ ~last.result.success
    /\ KBCollections(qdrant) # {}
    /\ Listed(last.result.available_kbs) = KBCollections(qdrant)
    /\ RoutedCollection(last.routing_result) \notin DOMAIN chat_histories

\* how many times x occurs in the sequence seq
Occurrences(seq, x) == Cardinality({i \in DOMAIN seq : seq[i] = x})

\* the callers p and r both made a chat call through the same entry point on
\* the same session, and both calls returned success
BothReturned(p, r) ==
    /\ p # r
    /\ calls[p].pc = "done" /\ calls[r].pc = "done"
    /\ calls[p].success /\ calls[r].success
    /\ calls[p].entry = calls[r].entry
    /\ calls[p].session_id = calls[r].session_id

\* the history of the session of the call of p holds the turn of that call
\* exactly once: in the engine the (question, answer) pair of the memory, in
\* the single-collection server the question followed by its answer
HoldsTurnOnce(p) ==
    IF calls[p].entry = "chat_with_collection"
    THEN Occurrences(Turns(chat_histories, _get_collection_name(RaceKb),
                           calls[p].session_id),
                     <<calls[p].question, "ans">>) = 1
    ELSE LET messages == StoredMessages(session_histories, lists, calls[p].session_id)
         IN  /\ Occurrences(messages, HumanMessage(calls[p].question)) = 1
             /\ \A i \in DOMAIN messages :
                    messages[i] = HumanMessage(calls[p].question)
                        => i < Len(messages) /\ messages[i + 1] = AIMessage("ans")

CandidateOf(documents, page_content) ==
    CHOOSE i \in DOMAIN documents : documents[i].page_content = page_content

\* C32: compress_documents, given N candidates and the limit top_n, returns
\* min(N, top_n) documents; they are distinct candidates, each carrying its own
\* score as relevance_score and otherwise its own metadata; they are in
\* non-increasing score order; no dropped candidate scores higher than a kept
\* one; for N = 0 the result is the empty list.
C32_RerankKeepsTopN ==
    last.op = "compress_documents"
        => LET documents == last.documents
               scores == last.scores
               result == last.result
               kept == {CandidateOf(documents, result[k].page_content) :
                            k \in DOMAIN result}
           IN  /\ Len(result) = Min(Len(documents), last.top_n)
               /\ \A k \in DOMAIN result :
                    /\ \E i \in DOMAIN documents :
                            documents[i].page_content = result[k].page_content
                    /\ result[k].metadata.relevance_score
                            = scores[CandidateOf(documents, result[k].page_content)]
                    /\ Without(result[k].metadata, {"relevance_score"})
                            = Without(documents[CandidateOf(documents,
                                            result[k].page_content)].metadata,
                                      {"relevance_score"})
               /\ Cardinality(kept) = Len(result)
               /\ \A k \in DOMAIN result :
                    k < Len(result)
                        => result[k].metadata.relevance_score
                                >= result[k + 1].metadata.relevance_score
               /\ \A i \in DOMAIN documents \ kept : \A j \in kept :
                    scores[i] <= scores[j]
               /\ documents = <<>> => result = <<>>

\* three candidates scored low, high, middle and a limit of two: the result
\* is the second and then the third, each with its new score
C32_Witness ==
    /\ last.op = "compress_documents"
    /\ Len(last.documents) = 3 /\ last.top_n = 2
    /\ last.scores = <<20000, 90000, 50000>>
    /\ Len(last.result) = 2
    /\ last.result[1].page_content = "d2"
    /\ last.result[1].metadata.relevance_score = 90000
    /\ last.result[2].page_content = "d3"
    /\ last.result[2].metadata.relevance_score = 50000

\* the operation recorded in l is an ingestion (the engine's upload_document
\* or the pipeline's index_document) of a file whose first extracted page has
\* no text
BlankFirstPage(l) ==
    /\ l.op \in {"upload_document", "index_document"}
    /\ l.pages > 0
    /\ l.first_page = ""

\* the metadata of the chunks that the step stored
StoredChunkMetadata ==
    IF last'.op = "upload_document"
    THEN {qdrant'[last'.collection_name][id].metadata :
            id \in NewChunks(last'.collection_name)}
    ELSE {last'.split_docs[i].metadata : i \in DOMAIN last'.split_docs}

\* C33: when the first extracted page has no text, an ingestion makes no
\* metadata-extraction LLM call and continues with defaulted metadata: the AI
\* metadata it returns, and the metadata of every chunk it stores, has the four
\* fields doc_type, category, status and title with their default values.
C33_BlankFirstPageDefaults ==
    [][BlankFirstPage(last')
        => /\ ~last'.llm_called
           /\ (last'.result.success \/ "ai_metadata" \in DOMAIN last'.result)
                => \/ last'.result.ai_metadata \in {DefaultMetadata, PipelineDefaultMetadata}
                   \/ last'.result.ai_metadata = None /\ ~last'.result.success
           /\ \A m \in StoredChunkMetadata :
                \E d \in {DefaultMetadata, PipelineDefaultMetadata} :
                    \A k \in RequiredFields : k \in DOMAIN m /\ m[k] = d[k]]_vars

\* an upload of a PDF whose first page is blank succeeded with empty AI
\* metadata, and the chunk of its second page has none of the four fields
C33_Witness ==
    /\ BlankFirstPage(last)
    /\ last.op = "upload_document"
    /\ last.result.success
    /\ last.result.ai_metadata = EmptyDict
    /\ \E id \in ChunkIds(qdrant, last.collection_name) :
            DOMAIN qdrant[last.collection_name][id].metadata \cap RequiredFields = {}

\* the entries of a listing are those of the collections of the store that
\* carry the KB prefix: one entry for each, under its name without the prefix
ListsEveryKb(result, q) ==
    /\ {info.collection_name : info \in result.collections}
            = {n \in DOMAIN q : StartsWithKb(n)}
    /\ \A info \in result.collections :
            info.kb_name = SubSeq(info.collection_name, 4, Len(info.collection_name))
    /\ \A x, y \in result.collections : x.collection_name = y.collection_name => x = y
    /\ result.count = Cardinality(result.collections)

\* a KB whose sentinel is missing, or cannot be read on this call, is listed
\* with the placeholder; any other with the description of its sentinel
BestEffortDescriptions(result, q, fault) ==
    \A info \in result.collections :
        info.description
            = IF fault = "scroll" \/ SentinelIds(q, info.collection_name) = {}
              THEN <<"No description">>
              ELSE ScrollMetadata(q, info.collection_name).description

\* C34 as stated: list_collections reports exactly the collections whose name
\* starts with the KB prefix, each once, under its name without the prefix,
\* with count the number reported; a KB whose sentinel is missing or
\* unreadable is listed with the placeholder description.
C34_Original ==
    last.op = "list_collections"
        => /\ last.result.success
           /\ ListsEveryKb(last.result, qdrant)
           /\ BestEffortDescriptions(last.result, qdrant, last.fault)

\* C34: a list_collections call whose requests for the store's collections
\* and for the details of each KB collection succeed reports exactly the
\* collections whose name starts with the KB prefix, each once, under its name
\* without the prefix, with count the number reported; a KB whose sentinel is
\* missing or unreadable is listed with the placeholder description and the
\* call succeeds.  When one of those two requests fails the call returns
\* success = false with a message and no collection.
C34_ListReportsEveryKb ==
    last.op = "list_collections"
        => IF ListRaises(qdrant, last.fault)
           THEN /\ ~last.result.success
                /\ "message" \in DOMAIN last.result
                /\ last.result.collections = {}
           ELSE /\ last.result.success
                /\ ListsEveryKb(last.result, qdrant)
                /\ BestEffortDescriptions(last.result, qdrant, last.fault)

\* a listing of two KBs, one with its sentinel and one without: both are
\* listed, the second with the placeholder
C34_Witness ==
    /\ last.op = "list_collections"
    /\ last.fault = "none"
    /\ last.result.success
    /\ last.result.count = 2
    /\ \E x, y \in last.result.collections :
            /\ SentinelIds(qdrant, x.collection_name) # {}
            /\ x.description = ManualDescription
            /\ SentinelIds(qdrant, y.collection_name) = {}
            /\ y.description = <<"No description">>

(***************************************************************************)
(* C35: a failed RouterEntry write                                         *)
(***************************************************************************)

\* the step is a create_collection or an upload_document in which a write of
\* the RouterEntry raised
RouterEntryWriteRaised ==
    /\ last'.op \in {"create_collection", "upload_document"}
    /\ last'.fault \in {"embed_query", "upsert_router",
                        "upsert_router_at_creation", "upsert_router_after_store"}

\* the step returned success and its collection, one sentinel and its chunks
\* are in the store
OutcomeKept ==
    LET c == last'.collection_name
    IN  /\ last'.result.success
        /\ collection_exists(qdrant', c)
        /\ IF last'.existed
           THEN Sentinels(qdrant', c) = Sentinels(qdrant, c)
           ELSE Cardinality(SentinelIds(qdrant', c)) = 1
        /\ last'.op = "upload_document" =>
                /\ Cardinality(ChunkIds(qdrant', c)) =
                        (IF last'.existed THEN Cardinality(ChunkIds(qdrant, c)) ELSE 0)
                            + last'.result.chunks
                /\ last'.existed => \A i \in ChunkIds(qdrant, c) :
                                        /\ i \in ChunkIds(qdrant', c)
                                        /\ qdrant'[c][i] = qdrant[c][i]

\* the step wrote the RouterEntry twice and only one of the two writes raised
OneOfTwoWritesRaised ==
    /\ last'.op = "upload_document"
    /\ ~last'.existed
    /\ last'.fault \in {"upsert_router_at_creation", "upsert_router_after_store"}

\* C35 as stated: when a write of the RouterEntry fails, create_collection
\* and upload_document still return success, their collection, sentinel and
\* chunks are stored, and the router index is as it was before the call.
C35_Original ==
    [][RouterEntryWriteRaised =>
            /\ OutcomeKept
            /\ RouterPoints(qdrant') = RouterPoints(qdrant)]_vars

\* C35, amended: when a write of the RouterEntry fails, create_collection and
\* upload_document still return success and their collection, sentinel and
\* chunks are stored; the router index is as it was before the call unless
\* the call is an auto-creating upload of which only one of the two
\* RouterEntry writes failed, and then it holds what the other write stored.
C35_RouterFailureKeepsOutcome ==
    [][RouterEntryWriteRaised =>
            /\ OutcomeKept
            /\ RouterPoints(qdrant') =
                    IF OneOfTwoWritesRaised
                    THEN RouterPoints(_update_router_index(
                                          qdrant, last'.kb_name,
                                          last'.result.collection_description, "none"))
                    ELSE RouterPoints(qdrant)]_vars

\* an upload with a failing RouterEntry write succeeded on a KB that has a
\* RouterEntry, stored its chunk, and the RouterEntry kept the old description
C35_Witness ==
    /\ last.op = "upload_document"
    /\ last.fault = "upsert_router"
    /\ last.existed
    /\ last.result.success
    /\ last.result.chunks = 1
    /\ ChunkIds(qdrant, last.collection_name) # {}
    /\ \E i \in RouterEntries(qdrant, last.collection_name) :
            qdrant[ROUTER_COLLECTION_NAME][i].description = ManualDescription
    /\ last.result.collection_description # ManualDescription

(***************************************************************************)
(* C36: the session entry of a failed first chat                           *)
(***************************************************************************)

\* the step is a chat_with_collection on a KB that exists, with a session_id
\* that had no entry for this KB, and it returned failure
FirstChatFailed ==
    /\ last'.op = "chat_with_collection"
    /\ collection_exists(qdrant, last'.collection_name)
    /\ ~HasSession(chat_histories, last'.collection_name, last'.session_id)
    /\ ~last'.result.success

\* the step is a clear_chat_history for the pair of the chat_with_collection
\* before it, which was on an existing KB and returned failure
ClearAfterFailedChat ==
    /\ last.op = "chat_with_collection"
    /\ collection_exists(qdrant, last.collection_name)
    /\ ~last.result.success
    /\ last'.op = "clear_chat_history"
    /\ last'.collection_name = last.collection_name
    /\ last'.session_id = last.session_id

\* C36: chat_with_collection on an existing KB creates the session entry of
\* (KB, session_id) before retrieval runs: after a failed first chat on a new
\* session_id the entry exists with zero turns, and a clear_chat_history for
\* that pair that follows returns success.
C36_FailedChatLeavesSession ==
    [][/\ FirstChatFailed =>
            /\ HasSession(chat_histories', last'.collection_name, last'.session_id)
            /\ chat_histories'[last'.collection_name][last'.session_id] = <<>>
       /\ ClearAfterFailedChat => last'.result.success]_vars

\* a chat_with_collection on an existing KB failed in the chain and left the
\* entry of its session with zero turns, next to a session that has a turn
C36_Witness ==
    /\ last.op = "chat_with_collection"
    /\ last.fault = "chain"
    /\ ~last.result.success
    /\ collection_exists(qdrant, last.collection_name)
    /\ HasSession(chat_histories, last.collection_name, last.session_id)
    /\ chat_histories[last.collection_name][last.session_id] = <<>>
    /\ TotalTurns(chat_histories) > 0

(***************************************************************************)
(* C37: one memory per (KB, session_id) for both chat entry points         *)
(***************************************************************************)

\* the step is a chat that reached a KB: a chat_with_collection, or a
\* chat_auto_route that was routed
ChatOnKb ==
    \/ last'.op = "chat_with_collection"
    \/ last'.op = "chat_auto_route" /\ last'.routing_result # None

\* the KB name that the chat of this step was given or routed to
ChatKbName ==
    IF last'.op = "chat_auto_route" THEN last'.routing_result.kb_name ELSE last'.kb_name

\* C37: a chat_auto_route routed to KB k with session_id s and a
\* chat_with_collection(k, s) read and append to one memory, the one of
\* (collection of k, s): a successful chat from either entry point appends its
\* turn to the turns both entry points stored there before, and the memory of
\* every other pair, the same session_id under another KB included, is left
\* as it was.
C37_SharedSessionMemory ==
    [][ChatOnKb =>
        LET c == _get_collection_name(ChatKbName)
            s == last'.session_id
        IN  /\ IF last'.result.success
               THEN Turns(chat_histories', c, s) =
                        Append(Turns(chat_histories, c, s),
                               <<last'.query, last'.result.answer>>)
               ELSE Turns(chat_histories', c, s) = Turns(chat_histories, c, s)
            /\ \A c2 \in DOMAIN chat_histories \cup DOMAIN chat_histories' :
               \A s2 \in (IF c2 \in DOMAIN chat_histories
                          THEN DOMAIN chat_histories[c2] ELSE {})
                            \cup (IF c2 \in DOMAIN chat_histories'
                                  THEN DOMAIN chat_histories'[c2] ELSE {}) :
                    <<c2, s2>> # <<c, s>> =>
                        SessionOf(chat_histories', c2, s2) = SessionOf(chat_histories, c2, s2)
       ]_vars

\* a routed chat appended its turn after the turn of a direct chat on the
\* same KB and session_id
C37_Witness ==
    /\ last.op = "chat_auto_route"
    /\ last.result.success
    /\ Turns(chat_histories, _get_collection_name(last.result.routed_to), last.session_id)
            = << <<"q2", "ans">>, <<last.query, last.result.answer>> >>

(***************************************************************************)
(* C38: the router index is no KB                                          *)
(***************************************************************************)

\* the payloads of the router index are RouterEntries: neither a sentinel nor
\* a chunk is among them
HoldsRouterEntriesOnly(q) ==
    \A i \in DOMAIN RouterPoints(q) :
        DOMAIN RouterPoints(q)[i] = {"kb_name", "collection_name", "description"}

\* C38: no KB name resolves to the router index collection: every resolved
\* collection name starts with "kb_" and differs from "master_router_index",
\* so no create_collection, upload_document or delete_collection creates,
\* fills or drops the router index, and list_collections never reports it.
C38_RouterIsNoKb ==
    /\ \A kb_name \in InfoNames \cup RouterLikeNames :
            /\ IsPrefix(<<"k", "b", "_">>, _get_collection_name(kb_name))
            /\ _get_collection_name(kb_name) # ROUTER_COLLECTION_NAME
    /\ [][/\ collection_exists(qdrant', ROUTER_COLLECTION_NAME)
                = collection_exists(qdrant, ROUTER_COLLECTION_NAME)
           /\ HoldsRouterEntriesOnly(qdrant')
           /\ last'.op \in {"create_collection", "upload_document", "delete_collection"}
                => last'.collection_name # ROUTER_COLLECTION_NAME
           /\ \A info \in list_collections(qdrant', "none").collections :
                /\ info.collection_name # ROUTER_COLLECTION_NAME
                /\ _get_collection_name(info.kb_name) # ROUTER_COLLECTION_NAME]_vars

\* a KB created under a name that spells the router index stands next to the
\* router index, holds the chunk of an upload and is listed; the router index
\* holds its RouterEntry
C38_Witness ==
    /\ last.op = "list_collections"
    /\ collection_exists(qdrant, ROUTER_COLLECTION_NAME)
    /\ \E info \in last.result.collections :
            /\ info.kb_name = ROUTER_COLLECTION_NAME
            /\ info.collection_name = <<"k", "b", "_">> \o ROUTER_COLLECTION_NAME
            /\ ChunkIds(qdrant, info.collection_name) # {}
            /\ RouterEntries(qdrant, info.collection_name) # {}

(***************************************************************************)
(* C39: the stored history of the single-collection server                 *)
(***************************************************************************)

\* the chat call recorded in l returned an answer
ChatSucceeded(l) ==
    /\ l.op = "chat_with_documents"
    /\ "conversation_length" \in DOMAIN l.result

\* the messages are a question, its answer, a question, its answer, ...
Alternating(messages) ==
    /\ Len(messages) % 2 = 0
    /\ \A i \in 1..Len(messages) :
            messages[i].type = IF i % 2 = 1 THEN "human" ELSE "ai"

\* the step left the stored history of every session other than s as it was
OtherHistoriesKept(s) ==
    /\ DOMAIN session_histories' \ {s} = DOMAIN session_histories \ {s}
    /\ \A x \in DOMAIN session_histories \ {s} :
            StoredMessages(session_histories', lists', x)
                = StoredMessages(session_histories, lists, x)

\* C39: in the single-collection server the stored history of a session
\* holds two messages per successful chat call on it since its last clear,
\* question then answer in call order: it starts empty, a successful chat
\* appends its question and its answer to the session's history and returns
\* the new length as conversation_length, a clear removes the history, and
\* nothing else changes a history: not a chat call that raises and not
\* query_documents.
C39_HistoryCountsChats ==
    [][/\ ChatSucceeded(last') =>
            /\ StoredMessages(session_histories', lists', last'.session_id)
                    = StoredMessages(session_histories, lists, last'.session_id)
                        \o <<HumanMessage(last'.question),
                              AIMessage(Get(last'.response, "answer", ""))>>
            /\ last'.result.conversation_length
                    = Len(StoredMessages(session_histories', lists', last'.session_id))
            /\ OtherHistoriesKept(last'.session_id)
       /\ last'.op = "chat_with_documents" /\ ~ChatSucceeded(last') =>
            /\ session_histories' = session_histories
            /\ lists' = lists
       /\ last'.op = "clear_chat_history" =>
            /\ last'.session_id \notin DOMAIN session_histories'
            /\ last'.result.success = (last'.session_id \in DOMAIN session_histories)
            /\ OtherHistoriesKept(last'.session_id)
       /\ last'.op = "query_documents" =>
            /\ session_histories' = session_histories
            /\ lists' = lists
       /\ \A x \in DOMAIN session_histories' :
            /\ Alternating(StoredMessages(session_histories', lists', x))
            /\ StoredMessages(session_histories', lists', x) # <<>>]_vars

\* the second chat of a session returned conversation_length 4 and the
\* history holds the two questions and answers in call order
C39_Witness ==
    /\ ChatSucceeded(last)
    /\ last.result.conversation_length = 4
    /\ StoredMessages(session_histories, lists, last.session_id)
            = <<HumanMessage("q1"), AIMessage("ans"),
                HumanMessage(last.question), AIMessage("")>>

(***************************************************************************)
(* C40: the names handed back resolve to where they came from              *)
(***************************************************************************)

\* KB names of every spelling, a name that carries the KB prefix itself among
\* them
RoundTripNames ==
    InfoNames \cup RouterLikeNames \cup {<<"k", "b", "_", "A", " ", "b">>}

\* col.name[3:]
StripPrefix(collection_name) == SubSeq(collection_name, 4, Len(collection_name))

\* C40: name normalization is idempotent, and every KB name handed back to a
\* caller resolves to the collection it was derived from: the prefix-stripped
\* names of list_collections and of the available_kbs suggestions resolve to
\* the collection they were stripped from, and the kb_name of a RouterEntry,
\* which route_to_kb returns, resolves to the collection the entry is for.
C40_HandedBackNamesResolve ==
    /\ \A name \in RoundTripNames :
            /\ _normalize_collection_name(_normalize_collection_name(name))
                    = _normalize_collection_name(name)
            /\ _get_collection_name(StripPrefix(_get_collection_name(name)))
                    = _get_collection_name(name)
    /\ \A info \in list_collections(qdrant, "none").collections :
            /\ info.collection_name \in DOMAIN qdrant
            /\ _get_collection_name(info.kb_name) = info.collection_name
    /\ \A i \in DOMAIN RouterPoints(qdrant) :
            /\ _get_collection_name(RouterPoints(qdrant)[i].kb_name) = i
            /\ RouterPoints(qdrant)[i].collection_name = i
    /\ last.op = "route_to_kb" /\ last.result # None =>
            _get_collection_name(last.result.kb_name) = last.best
    /\ last.op = "chat_auto_route" /\ last.routing_result # None =>
            \E i \in DOMAIN RouterPoints(qdrant) :
                /\ RouterPoints(qdrant)[i].kb_name = last.routing_result.kb_name
                /\ _get_collection_name(last.routing_result.kb_name) = i
    /\ last.op \in {"chat_with_collection", "chat_auto_route"}
            /\ "available_kbs" \in DOMAIN last.result =>
            \A kb_name \in last.result.available_kbs :
                /\ _get_collection_name(kb_name) \in DOMAIN qdrant
                /\ StripPrefix(_get_collection_name(kb_name)) = kb_name

\* a chat on a missing KB suggested the name a_b for the KB that was created
\* as "A b", while the RouterEntry of that KB carries the name "A b"
C40_Witness ==
    /\ last.op = "chat_with_collection"
    /\ ~last.result.success
    /\ "available_kbs" \in DOMAIN last.result
    /\ <<"a", "_", "b">> \in last.result.available_kbs
    /\ \E i \in DOMAIN RouterPoints(qdrant) :
            RouterPoints(qdrant)[i].kb_name = <<"A", " ", "b">>
====
